---- MODULE Spec2Model ----
(***************************************************************************)
(* FAHEEMZMOVIES backend: the stream extraction engine and the streaming   *)
(* proxy, as state machines over the awaits of the Express handlers.       *)
(*                                                                         *)
(* The repository holds five variants of the server:                        *)
(*   "multi"  src/unnamed/part_000:1-592     multi-source resolver and the *)
(*            playlist-rewriting /api/video-proxy                          *)
(*   "direct" src/unnamed/part_000:594-1282  single-source extraction and  *)
(*            the direct /api/stream                                       *)
(*   "simple" src/unnamed/part_000:1284-1934 single-source extraction and  *)
(*            the simple /api/video-proxy                                  *)
(*   "server" src/server.js                  single-source extraction and  *)
(*            the /api/stream that launches its own browser                *)
(*   "readme" src/README.md:15-119           the server.js listed there:   *)
(*            /api/extract with a browser per request, /api/video-proxy    *)
(* A process runs one of them (variable variant).                          *)
(*                                                                         *)
(* Strings are sequences of tokens; includes / startsWith / endsWith /     *)
(* split are computed on tokens, with the tokens chosen so that every      *)
(* substring the code looks for is a token or is listed in Embedded.       *)
(***************************************************************************)
EXTENDS Integers, Sequences, FiniteSets, TLC

\* ------------------------------------------------------------------ bounds
\* request slots (handler activations that exist at once)
NumSlots == 2
\* requests accepted over the process lifetime
MaxRequests == 2
\* network requests observed per page context
MaxNet == 2

Reqs == 1..NumSlots

\* ----------------------------------------------------------------- strings
NoUrl == <<>>

\* needle occurs inside token t although t # needle
Embedded ==
    { <<"https://ads.example", "ads">>,
      <<"https://ads.example", "http">>,
      <<"https://cdn.example", "http">>,
      <<"https://vidlink.pro", "http">>,
      <<"https://moviesapi.to", "http">>,
      <<"https://example.com", "http">>,
      <<"//", "/">>,
      <<"/hls/", "/">>,
      <<"/v/", "/">>,
      <<"/movie/", "/">>,
      <<"/tv/", "/">>,
      <<"/x/", "/">>,
      <<"/analytics/", "analytics">>,
      <<"/analytics/", "/">>,
      <<"#EXTM3U", "#">>,
      <<"#EXTINF:10,", "#">>,
      <<"https://other.example", "http">>,
      <<"https://[bad", "http">>,
      <<"https:", "http">> }

TokenHas(t, needle) == t = needle \/ <<t, needle>> \in Embedded

\* String.prototype.includes
Includes(u, needle) == \E i \in 1..Len(u) : TokenHas(u[i], needle)

\* String.prototype.startsWith
StartsWith(u, prefix) == Len(u) > 0 /\ TokenHas(u[1], prefix)

\* String.prototype.endsWith
EndsWith(u, suffix) == Len(u) > 0 /\ u[Len(u)] = suffix

\* index of the first occurrence of token tok in u at or after position from, 0 if none
IndexFrom(u, tok, from) ==
    IF \E i \in from..Len(u) : u[i] = tok
    THEN CHOOSE i \in from..Len(u) : u[i] = tok /\ \A j \in from..(i - 1) : u[j] # tok
    ELSE 0

\* u.split(tok)[0]
SplitHead(u, tok) ==
    IF IndexFrom(u, tok, 1) = 0 THEN u ELSE SubSeq(u, 1, IndexFrom(u, tok, 1) - 1)

\* u.split(tok)[1], for a u that contains tok
SplitSecond(u, tok) ==
    LET i == IndexFrom(u, tok, 1)
        j == IndexFrom(u, tok, i + 1)
    IN  IF j = 0 THEN SubSeq(u, i + 1, Len(u)) ELSE SubSeq(u, i + 1, j - 1)

\* tokens that are runs of decimal digits (\d+)
Digits == {"603", "1399", "1", "2"}

\* new URL(u).origin; NoUrl when u does not parse as an absolute URL
Origin(u) == IF StartsWith(u, "http") THEN <<u[1]>> ELSE NoUrl

\* ------------------------------------------------- extraction: the inputs
\* req.query.url of an extraction request (NoUrl: the parameter is missing)
ExtractUrls ==
    { NoUrl,
      <<"https://vidlink.pro", "/movie/", "603">>,
      <<"https://vidlink.pro", "/movie/", "603", "?", "autoplay=1">>,
      <<"https://vidlink.pro", "/movie/">>,
      <<"https://vidlink.pro", "/tv/", "1399", "/", "1", "/", "2">>,
      <<"https://vidlink.pro", "/tv/", "1399", "/", "1">>,
      <<"https://vidlink.pro", "/movie/", "603", "?", "from=", "/tv/", "1399">>,
      <<"https://example.com", "/watch/", "603">> }

\* the requests a page may issue while it loads: request.url(), request.resourceType()
NetRequests ==
    { [url |-> <<"https://cdn.example", "/hls/", "master", ".m3u8">>, resourceType |-> "xhr"],
      [url |-> <<"https://cdn.example", "/hls/", "MTA4MA==", ".m3u8">>, resourceType |-> "xhr"],
      [url |-> <<"https://cdn.example", "/v/", "movie", ".mp4">>, resourceType |-> "media"],
      [url |-> <<"https://cdn.example", "/img/", "poster.png">>, resourceType |-> "image"],
      [url |-> <<"https://ads.example", "/pre", ".m3u8">>, resourceType |-> "xhr"],
      [url |-> <<"https://cdn.example", "/analytics/", "t.js">>, resourceType |-> "script"] }

\* ---------------------------------------------- extraction: pure functions
IsMovie(u) == Includes(u, "/movie/")

IsTV(u) == Includes(u, "/tv/")

\* mutant of InvalidFormat: the format check is left out
InvalidFormatUnchecked(u) == FALSE

\* the second early return of the multi-source handler
InvalidFormat(u) == ~IsMovie(u) /\ ~IsTV(u)

SOURCES ==
    << [name |-> "vidlink.pro", priority |-> 1],
       [name |-> "moviesapi.to", priority |-> 2] >>

MovieUrl(s, id) ==
    IF s = 1
    THEN <<"https://vidlink.pro", "/movie/">> \o id \o <<"?", "nextbutton=true">>
    ELSE <<"https://moviesapi.to", "/movie/">> \o id

TvUrl(s, id, season, episode) ==
    IF s = 1
    THEN <<"https://vidlink.pro", "/tv/", id, "/", season, "/", episode, "?", "nextbutton=true">>
    ELSE <<"https://moviesapi.to", "/tv/", id, "-", season, "-", episode>>

\* targetUrl.split('/movie/')[1]?.split('?')[0]
MovieId(u) == SplitHead(SplitSecond(u, "/movie/"), "?")

\* targetUrl.match(/\/tv\/(\d+)\/(\d+)\/(\d+)/): the three groups, <<>> for null
TvMatch(u) ==
    LET Hit(i) == /\ i + 5 <= Len(u)
                  /\ u[i] = "/tv/"
                  /\ u[i + 1] \in Digits /\ u[i + 2] = "/"
                  /\ u[i + 3] \in Digits /\ u[i + 4] = "/"
                  /\ u[i + 5] \in Digits
    IN  IF \E i \in 1..Len(u) : Hit(i)
        THEN LET i == CHOOSE k \in 1..Len(u) : Hit(k) /\ \A j \in 1..(k - 1) : ~Hit(j)
             IN  <<u[i + 1], u[i + 3], u[i + 5]>>
        ELSE <<>>

\* the URL built for source s, NoUrl when the iteration is skipped (continue)
SourceUrl(s, u) ==
    IF IsMovie(u)
    THEN IF MovieId(u) = <<>> THEN NoUrl ELSE MovieUrl(s, MovieId(u))
    ELSE IF TvMatch(u) = <<>> THEN NoUrl
         ELSE TvUrl(s, TvMatch(u)[1], TvMatch(u)[2], TvMatch(u)[3])

EmptyCapture == [m3u8 |-> <<>>, mp4 |-> <<>>]

\* mutant of Capture: a URL already in its list is not appended again
CaptureDeduplicated(cap, url) ==
    IF Includes(url, ".m3u8")
    THEN IF \E i \in 1..Len(cap.m3u8) : cap.m3u8[i] = url THEN cap
         ELSE [cap EXCEPT !.m3u8 = Append(@, url)]
    ELSE IF Includes(url, ".mp4") \/ Includes(url, ".webm") \/ Includes(url, ".mkv")
         THEN IF \E i \in 1..Len(cap.mp4) : cap.mp4[i] = url THEN cap
              ELSE [cap EXCEPT !.mp4 = Append(@, url)]
         ELSE cap

\* page.on('request'): the capture half
Capture(cap, url) ==
    IF Includes(url, ".m3u8") THEN [cap EXCEPT !.m3u8 = Append(@, url)]
    ELSE IF Includes(url, ".mp4") \/ Includes(url, ".webm") \/ Includes(url, ".mkv")
         THEN [cap EXCEPT !.mp4 = Append(@, url)]
         ELSE cap

\* page.on('request'): the gate half
Gate(req) ==
    IF \/ req.resourceType \in {"image", "stylesheet", "font"}
       \/ Includes(req.url, "ads")
       \/ Includes(req.url, "analytics")
       \/ Includes(req.url, "tracking")
    THEN "abort"
    ELSE "continue"

HasMarker(u) == Includes(u, "MTA4MA==") \/ Includes(u, "NzIw")

\* mutant of BestM3u8: the first captured URL, marker or not
BestM3u8First(list) == list[1]

\* bestM3u8Url: the first URL with a marker, the first URL when none has one
BestM3u8(list) ==
    IF \E i \in 1..Len(list) : HasMarker(list[i])
    THEN list[CHOOSE i \in 1..Len(list) :
                 HasMarker(list[i]) /\ \A j \in 1..(i - 1) : ~HasMarker(list[j])]
    ELSE list[1]

\* the candidate taken from the captured URLs, NoUrl when nothing was captured
SelectCaptured(cap) ==
    IF Len(cap.m3u8) > 0 THEN BestM3u8(cap.m3u8)
    ELSE IF Len(cap.mp4) > 0 THEN cap.mp4[1]
    ELSE NoUrl

\* the value standing for "the expression threw"
Throw == <<"(throws)">>

\* "Make sure the URL is absolute"; Throw when new URL(target) throws
AbsoluteUrl(s, target) ==
    IF StartsWith(s, "//") THEN <<"https:">> \o s
    ELSE IF StartsWith(s, "/")
         THEN IF Origin(target) = NoUrl THEN Throw ELSE Origin(target) \o s
         ELSE s

StreamType(s) == IF Includes(s, ".m3u8") THEN "hls" ELSE "direct"

ContentType(u) == IF IsTV(u) THEN "tv" ELSE "movie"

TriedSources == [i \in 1..Len(SOURCES) |-> SOURCES[i].name]

\* ------------------------------------------------------------- the state
VARIABLES
    variant,      \* which server file the process runs
    proc,         \* "running" | "closing" (SIGINT, browser closing) | "exited"
    browser,      \* the global handle: "undefined" | "launched" | "closed"
    launches,     \* puppeteer.launch calls that resolved, process-wide
    served,       \* requests accepted so far
    orphans,      \* browsers launched by a handler, still alive after it returned
    chain,        \* the requests a player made so far along one playback chain
    pc,           \* per slot: where the handler is suspended
    route,        \* per slot: the handler
    targetUrl,    \* per slot: req.query.url
    range,        \* per slot: req.headers.range ("" when absent)
    srcIdx,       \* per slot: index of the source the loop is at
    page,         \* per slot: the handler's page variable, 0 = undefined
    pages,        \* per slot: the page contexts opened for the request
    ownBrowser,   \* per slot: the handler's own browser variable (server.js:371)
    capturedUrls, \* per slot: the capturedUrls of the current attempt
    netLog,       \* per slot: the requests the current page's hook handled
    streamUrl,    \* per slot: the handler's streamUrl variable
    tried,        \* per slot: the loop iterations run so far (history)
    referer,      \* per slot: req.query.referer (NoUrl when absent)
    fetchReq,     \* per slot: the axios request under way or last made
    upstream,     \* per slot: what the upstream fetch came to
    fetches,      \* per slot: upstream fetches started
    resp          \* per slot: the responses sent

globals == <<variant, proc, browser, launches, served, orphans, chain>>
proxyVars == <<range, referer, fetchReq, upstream, fetches>>
locals == <<pc, route, targetUrl, srcIdx, page, pages, ownBrowser, capturedUrls,
            netLog, streamUrl, tried, proxyVars, resp>>
vars == <<globals, locals>>

Variants == {"multi", "direct", "simple", "server", "readme"}

\* the routes each variant registers
Routes(v) ==
    CASE v = "multi" -> {"extractMulti", "videoProxy"}
      [] v = "direct" -> {"extractSingle", "streamDirect"}
      [] v = "simple" -> {"extractSingle", "videoProxySimple"}
      [] v = "server" -> {"extractSingle", "streamLaunch"}
      [] v = "readme" -> {"extractReadme", "videoProxyReadme"}

NoUpstream == [kind |-> "none", status |-> 0, headers |-> <<>>, data |-> <<>>]

NoFetch == [url |-> NoUrl, responseType |-> "none", Referer |-> NoUrl, Range |-> ""]

\* the locals of a handler activation that does not exist
Fresh ==
    [pc |-> "idle",
     route |-> "none",
     targetUrl |-> NoUrl,
     range |-> "",
     referer |-> NoUrl,
     fetchReq |-> NoFetch,
     srcIdx |-> 0,
     page |-> 0,
     pages |-> <<>>,
     ownBrowser |-> "none",
     capturedUrls |-> EmptyCapture,
     netLog |-> <<>>,
     streamUrl |-> NoUrl,
     tried |-> <<>>,
     upstream |-> NoUpstream,
     fetches |-> 0,
     resp |-> <<>>]

Init ==
    /\ variant \in Variants
    /\ proc = "running"
    /\ browser = "undefined"
    /\ launches = 0
    /\ served = 0
    /\ orphans = 0
    /\ chain = <<>>
    /\ pc = [r \in Reqs |-> Fresh.pc]
    /\ route = [r \in Reqs |-> Fresh.route]
    /\ targetUrl = [r \in Reqs |-> Fresh.targetUrl]
    /\ range = [r \in Reqs |-> Fresh.range]
    /\ referer = [r \in Reqs |-> Fresh.referer]
    /\ fetchReq = [r \in Reqs |-> Fresh.fetchReq]
    /\ srcIdx = [r \in Reqs |-> Fresh.srcIdx]
    /\ page = [r \in Reqs |-> Fresh.page]
    /\ pages = [r \in Reqs |-> Fresh.pages]
    /\ ownBrowser = [r \in Reqs |-> Fresh.ownBrowser]
    /\ capturedUrls = [r \in Reqs |-> Fresh.capturedUrls]
    /\ netLog = [r \in Reqs |-> Fresh.netLog]
    /\ streamUrl = [r \in Reqs |-> Fresh.streamUrl]
    /\ tried = [r \in Reqs |-> Fresh.tried]
    /\ upstream = [r \in Reqs |-> Fresh.upstream]
    /\ fetches = [r \in Reqs |-> Fresh.fetches]
    /\ resp = [r \in Reqs |-> Fresh.resp]

\* ------------------------------------------------------- process lifecycle
\* the launch IIFE: browser = await puppeteer.launch(...)
LaunchResolve ==
    /\ proc = "running"
    /\ variant # "readme"
    /\ browser = "undefined"
    /\ browser' = "launched"
    /\ launches' = launches + 1
    /\ UNCHANGED <<variant, chain, proc, served, orphans, locals>>

\* process.exit(): the process and every handler activation are gone
Exit ==
    /\ proc' = "exited"
    /\ pc' = [r \in Reqs |-> Fresh.pc]
    /\ route' = [r \in Reqs |-> Fresh.route]
    /\ targetUrl' = [r \in Reqs |-> Fresh.targetUrl]
    /\ range' = [r \in Reqs |-> Fresh.range]
    /\ referer' = [r \in Reqs |-> Fresh.referer]
    /\ fetchReq' = [r \in Reqs |-> Fresh.fetchReq]
    /\ srcIdx' = [r \in Reqs |-> Fresh.srcIdx]
    /\ page' = [r \in Reqs |-> Fresh.page]
    /\ pages' = [r \in Reqs |-> Fresh.pages]
    /\ ownBrowser' = [r \in Reqs |-> Fresh.ownBrowser]
    /\ capturedUrls' = [r \in Reqs |-> Fresh.capturedUrls]
    /\ netLog' = [r \in Reqs |-> Fresh.netLog]
    /\ streamUrl' = [r \in Reqs |-> Fresh.streamUrl]
    /\ tried' = [r \in Reqs |-> Fresh.tried]
    /\ upstream' = [r \in Reqs |-> Fresh.upstream]
    /\ fetches' = [r \in Reqs |-> Fresh.fetches]
    /\ resp' = [r \in Reqs |-> Fresh.resp]

\* browser.close() closes every page context of that browser
ClosePagesOf(owner) ==
    [r \in Reqs |->
        [k \in 1..Len(pages[r]) |->
            IF pages[r][k].owner = owner
            THEN [pages[r][k] EXCEPT !.open = FALSE]
            ELSE pages[r][k]]]

\* process.on('SIGINT'): if (browser) await browser.close(), up to the await
SigintHandler ==
    /\ proc = "running"
    /\ IF browser = "launched"
       THEN /\ browser' = "closed"
            /\ pages' = ClosePagesOf("global")
            /\ proc' = "closing"
            /\ UNCHANGED <<pc, route, targetUrl, srcIdx, page, ownBrowser,
                           capturedUrls, netLog, streamUrl, tried, resp, proxyVars>>
       ELSE /\ Exit
            /\ UNCHANGED browser
    /\ UNCHANGED <<variant, chain, launches, served, orphans>>

\* process.exit() once browser.close() has resolved
ProcessExit ==
    /\ proc = "closing"
    /\ Exit
    /\ UNCHANGED <<variant, chain, browser, launches, served, orphans>>

\* --------------------------------------------------------- request arrival
ProxyUrls ==
    { NoUrl,
      <<"https://cdn.example", "/hls/", "index", ".m3u8">>,
      <<"https://cdn.example", "/hls/", "INDEX", ".M3U8">>,
      <<"https://cdn.example", "/hls/", "index", ".m3u8", "?", "token", "=", "x">>,
      <<"https://cdn.example", "/v/", "movie", ".mp4">> }

Ranges == {"", "bytes=100-199"}

Referers == { NoUrl, <<"https://vidlink.pro", "/">> }

IsExtract(rt) == rt \in {"extractMulti", "extractSingle"}

\* Express dispatches a GET to its route, in the first free slot; the client
\* sends one request at a time
Arrive(r) ==
    /\ proc # "exited"
    /\ served < MaxRequests
    /\ \A q \in Reqs : pc[q] = "idle"
    /\ \A q \in 1..(r - 1) : pc[q] # "idle"
    /\ \E rt \in Routes(variant) :
         /\ route' = [route EXCEPT ![r] = rt]
         /\ IF IsExtract(rt) \/ rt = "extractReadme"
            THEN /\ \E u \in ExtractUrls : targetUrl' = [targetUrl EXCEPT ![r] = u]
                 /\ UNCHANGED <<range, referer>>
            ELSE /\ \E u \in ProxyUrls : targetUrl' = [targetUrl EXCEPT ![r] = u]
                 /\ \E h \in Ranges : range' = [range EXCEPT ![r] = h]
                 /\ \E f \in Referers : referer' = [referer EXCEPT ![r] = f]
    /\ pc' = [pc EXCEPT ![r] = "start"]
    /\ served' = served + 1
    /\ UNCHANGED <<variant, chain, proc, browser, launches, orphans, srcIdx, page,
                   pages, ownBrowser, capturedUrls, netLog, streamUrl, tried,
                   fetchReq, upstream, fetches, resp>>

\* the handler has returned and its activation is gone
Finish(r) ==
    /\ pc[r] = "done"
    /\ orphans' = IF ownBrowser[r] = "live" THEN orphans + 1 ELSE orphans
    /\ pc' = [pc EXCEPT ![r] = Fresh.pc]
    /\ route' = [route EXCEPT ![r] = Fresh.route]
    /\ targetUrl' = [targetUrl EXCEPT ![r] = Fresh.targetUrl]
    /\ range' = [range EXCEPT ![r] = Fresh.range]
    /\ referer' = [referer EXCEPT ![r] = Fresh.referer]
    /\ fetchReq' = [fetchReq EXCEPT ![r] = Fresh.fetchReq]
    /\ srcIdx' = [srcIdx EXCEPT ![r] = Fresh.srcIdx]
    /\ page' = [page EXCEPT ![r] = Fresh.page]
    /\ pages' = [pages EXCEPT ![r] = Fresh.pages]
    /\ ownBrowser' = [ownBrowser EXCEPT ![r] = Fresh.ownBrowser]
    /\ capturedUrls' = [capturedUrls EXCEPT ![r] = Fresh.capturedUrls]
    /\ netLog' = [netLog EXCEPT ![r] = Fresh.netLog]
    /\ streamUrl' = [streamUrl EXCEPT ![r] = Fresh.streamUrl]
    /\ tried' = [tried EXCEPT ![r] = Fresh.tried]
    /\ upstream' = [upstream EXCEPT ![r] = Fresh.upstream]
    /\ fetches' = [fetches EXCEPT ![r] = Fresh.fetches]
    /\ resp' = [resp EXCEPT ![r] = Fresh.resp]
    /\ UNCHANGED <<variant, chain, proc, browser, launches, served>>

\* --------------------------------------------------- shared handler pieces
Running(r, rt, at) == proc # "exited" /\ route[r] = rt /\ pc[r] = at

\* res.status(status).json(body) / res.json(body) / res.send(body)
Respond(r, status, body) ==
    resp' = [resp EXCEPT ![r] = Append(@, [status |-> status, body |-> body])]

Goto(r, at) == pc' = [pc EXCEPT ![r] = at]

CurrentPage(r) == pages[r][page[r]]

\* browser.newPage() resolved: the page variable now holds a fresh page
OpenPage(r, src, owner) ==
    /\ pages' = [pages EXCEPT ![r] =
                    Append(@, [src |-> src, owner |-> owner,
                               open |-> TRUE, closeCalls |-> 0, scanned |-> FALSE,
                               videoSources |-> <<>>])]
    /\ page' = [page EXCEPT ![r] = Len(pages[r]) + 1]
    /\ capturedUrls' = [capturedUrls EXCEPT ![r] = EmptyCapture]
    /\ netLog' = [netLog EXCEPT ![r] = <<>>]

\* page.close() on the page variable: the call is counted; it resolves on an
\* open page and rejects on a page that is already closed
ClosePage(r) ==
    pages' = [pages EXCEPT ![r][page[r]] =
                 [@ EXCEPT !.open = FALSE, !.closeCalls = @ + 1]]

\* mutant of CaptureSlot: one capturedUrls object for every request
CaptureSlotShared(r) == 1

\* the capturedUrls object the hook of request r closes over: the one its own
\* handler activation declared
CaptureSlot(r) == r

\* where browser.newPage() leaves the handler: the call throws at once when the
\* global browser is still undefined, and is awaited otherwise
NewPageCall == IF browser = "undefined" THEN "newPageThrown" ELSE "newPage"

\* the request hook of an extraction page: capture, then gate
OnRequest(r, req) ==
    /\ proc # "exited"
    /\ IsExtract(route[r])
    /\ pc[r] \in {"goto", "settle", "waitSel"}
    /\ CurrentPage(r).open
    /\ Len(netLog[r]) < MaxNet
    /\ capturedUrls' = [capturedUrls EXCEPT ![CaptureSlot(r)] = Capture(@, req.url)]
    /\ netLog' = [netLog EXCEPT ![r] =
                     Append(@, [url |-> req.url, resourceType |-> req.resourceType,
                                decision |-> Gate(req)])]
    /\ UNCHANGED <<globals, pc, route, targetUrl, srcIdx, page, pages,
                   ownBrowser, streamUrl, tried, resp, proxyVars>>

\* ------------------------------------- multi-source /api/extract-stream
NumSources == Len(SOURCES)

\* mutant of SourceAt: the loop walks SOURCES from its end
SourceAtReversed(k) == NumSources + 1 - k

\* for (const source of SOURCES): the source of the k-th iteration
SourceAt(k) == k

\* the first iteration at or after i that builds a URL; the ones before it
\* hit "continue" without suspending
NextAttempt(i, u) ==
    IF \E j \in i..NumSources : SourceUrl(SourceAt(j), u) # NoUrl
    THEN CHOOSE j \in i..NumSources :
            /\ SourceUrl(SourceAt(j), u) # NoUrl
            /\ \A k \in i..(j - 1) : SourceUrl(SourceAt(k), u) = NoUrl
    ELSE NumSources + 1

Iteration(s, outcome, candidate) ==
    [src |-> s, outcome |-> outcome, candidate |-> candidate]

Skipped(i, j) == [k \in 1..(j - i) |-> Iteration(SourceAt(i + k - 1), "skipped", NoUrl)]

\* tried with the outcome of the iteration under way filled in
Outcome(trd, outcome, candidate) ==
    [trd EXCEPT ![Len(trd)] = Iteration(@.src, outcome, candidate)]

\* mutant of AfterFound: the loop goes on after a success
AfterFoundContinue(i) == i + 1

\* the iteration the loop goes to after "break"
AfterFound(i) == NumSources + 1

\* the iteration the loop goes to after "continue" in the per-source catch
AfterCatch(i) == i + 1

\* the iteration the loop goes to after a source yielded nothing
AfterEmpty(i) == i + 1

MultiBody(s, u) ==
    [success |-> TRUE, streamUrl |-> s, type |-> StreamType(s),
     contentType |-> ContentType(u), source |-> "multiple_sources"]

NotFoundBody ==
    [error |-> "Could not extract stream URL", triedSources |-> TriedSources]

\* the code after the loop, with streamUrl = s and page = pg, up to the await
\* of the finally block
MsAfterLoop(r, s, pg) ==
    /\ IF s = NoUrl
       THEN Respond(r, 404, NotFoundBody)
       ELSE IF AbsoluteUrl(s, targetUrl[r]) = Throw
            THEN Respond(r, 500, [error |-> "Failed to extract stream URL"])
            ELSE Respond(r, 200, MultiBody(AbsoluteUrl(s, targetUrl[r]), targetUrl[r]))
    /\ Goto(r, IF pg = 0 THEN "done" ELSE "finally")

\* the loop from iteration i on, with streamUrl = s and page = pg, up to the
\* next await
MsLoopFrom(r, i, trd, s, pg) ==
    LET j == NextAttempt(i, targetUrl[r])
        trd2 == trd \o Skipped(i, j)
    IN  /\ srcIdx' = [srcIdx EXCEPT ![r] = j]
        /\ IF j <= NumSources
           THEN /\ tried' = [tried EXCEPT ![r] = Append(trd2, Iteration(SourceAt(j), "newPage", NoUrl))]
                /\ Goto(r, NewPageCall)
                /\ UNCHANGED resp
           ELSE /\ tried' = [tried EXCEPT ![r] = trd2]
                /\ MsAfterLoop(r, s, pg)

\* the per-source catch: if (page) await page.close(); continue
MsCatch(r, trd) ==
    IF page[r] # 0
    THEN /\ tried' = [tried EXCEPT ![r] = trd]
         /\ Goto(r, "catchClose")
         /\ UNCHANGED <<srcIdx, resp>>
    ELSE MsLoopFrom(r, AfterCatch(srcIdx[r]), trd, streamUrl[r], page[r])

\* from the handler's entry to the first await
MsStart(r) ==
    /\ Running(r, "extractMulti", "start")
    /\ IF targetUrl[r] = NoUrl
       THEN /\ Respond(r, 400, [error |-> "URL parameter is required"])
            /\ Goto(r, "done")
            /\ UNCHANGED <<srcIdx, tried>>
       ELSE IF InvalidFormat(targetUrl[r])
            THEN /\ Respond(r, 400, [error |-> "Invalid URL format. Must be movie or TV show URL."])
                 /\ Goto(r, "done")
                 /\ UNCHANGED <<srcIdx, tried>>
            ELSE MsLoopFrom(r, 1, <<>>, NoUrl, 0)
    /\ UNCHANGED <<globals, route, targetUrl, page, pages, ownBrowser,
                   capturedUrls, netLog, streamUrl, proxyVars>>

\* page = await browser.newPage(), then the hook is installed and goto called
MsNewPageResolve(r) ==
    /\ Running(r, "extractMulti", "newPage")
    /\ browser = "launched"
    /\ OpenPage(r, SourceAt(srcIdx[r]), "global")
    /\ tried' = [tried EXCEPT ![r] = Outcome(@, "opened", NoUrl)]
    /\ Goto(r, "goto")
    /\ UNCHANGED <<globals, route, targetUrl, srcIdx, ownBrowser, streamUrl,
                   resp, proxyVars>>

\* browser.newPage() threw (browser undefined or closed) or rejected
MsNewPageReject(r) ==
    /\ Running(r, "extractMulti", "newPage") \/ Running(r, "extractMulti", "newPageThrown")
    /\ MsCatch(r, Outcome(tried[r], "newPageError", NoUrl))
    /\ UNCHANGED <<globals, route, targetUrl, page, pages, ownBrowser,
                   capturedUrls, netLog, streamUrl, proxyVars>>

MsGotoResolve(r) ==
    /\ Running(r, "extractMulti", "goto")
    /\ CurrentPage(r).open
    /\ Goto(r, "settle")
    /\ UNCHANGED <<globals, route, targetUrl, srcIdx, page, pages, ownBrowser,
                   capturedUrls, netLog, streamUrl, tried, resp, proxyVars>>

\* page.goto rejected: navigation timeout or navigation failure
MsGotoReject(r, why) ==
    /\ Running(r, "extractMulti", "goto")
    /\ MsCatch(r, Outcome(tried[r], why, NoUrl))
    /\ UNCHANGED <<globals, route, targetUrl, page, pages, ownBrowser,
                   capturedUrls, netLog, streamUrl, proxyVars>>

\* the 5 s settle timer fired; waitForSelector is called
MsSettleDone(r) ==
    /\ Running(r, "extractMulti", "settle")
    /\ Goto(r, "waitSel")
    /\ UNCHANGED <<globals, route, targetUrl, srcIdx, page, pages, ownBrowser,
                   capturedUrls, netLog, streamUrl, tried, resp, proxyVars>>

\* waitForSelector resolved or timed out (both go on); the candidate is selected
MsSelect(r) ==
    /\ Running(r, "extractMulti", "waitSel")
    /\ LET c == SelectCaptured(capturedUrls[r])
       IN  IF c # NoUrl
           THEN /\ streamUrl' = [streamUrl EXCEPT ![r] = c]
                /\ MsLoopFrom(r, AfterFound(srcIdx[r]), Outcome(tried[r], "found", c),
                              c, page[r])
           ELSE /\ tried' = [tried EXCEPT ![r] = Outcome(@, "empty", NoUrl)]
                /\ Goto(r, "closeEmpty")
                /\ UNCHANGED <<streamUrl, srcIdx, resp>>
    /\ UNCHANGED <<globals, route, targetUrl, page, pages, ownBrowser,
                   capturedUrls, netLog, proxyVars>>

\* await page.close() after "No stream found from ..."
MsCloseEmptyDone(r) ==
    /\ Running(r, "extractMulti", "closeEmpty")
    /\ ClosePage(r)
    /\ IF CurrentPage(r).open
       THEN MsLoopFrom(r, AfterEmpty(srcIdx[r]), tried[r], streamUrl[r], page[r])
       ELSE MsCatch(r, Outcome(tried[r], "closeError", NoUrl))
    /\ UNCHANGED <<globals, route, targetUrl, page, ownBrowser, capturedUrls,
                   netLog, streamUrl, proxyVars>>

\* await page.close() inside the per-source catch; a rejection leaves the loop
\* for the outer catch
MsCatchCloseDone(r) ==
    /\ Running(r, "extractMulti", "catchClose")
    /\ ClosePage(r)
    /\ IF CurrentPage(r).open
       THEN MsLoopFrom(r, AfterCatch(srcIdx[r]), tried[r], streamUrl[r], page[r])
       ELSE /\ Respond(r, 500, [error |-> "Failed to extract stream URL"])
            /\ Goto(r, "finally")
            /\ UNCHANGED <<srcIdx, tried>>
    /\ UNCHANGED <<globals, route, targetUrl, page, ownBrowser, capturedUrls,
                   netLog, streamUrl, proxyVars>>

\* finally: if (page) await page.close().catch(...)
ExtractFinally(r) ==
    /\ proc # "exited"
    /\ IsExtract(route[r])
    /\ pc[r] = "finally"
    /\ ClosePage(r)
    /\ Goto(r, "done")
    /\ UNCHANGED <<globals, route, targetUrl, srcIdx, page, ownBrowser,
                   capturedUrls, netLog, streamUrl, tried, resp, proxyVars>>

NavErrors == {"timeout", "navFailed"}

MultiNext(r) ==
    \/ MsStart(r)
    \/ MsNewPageResolve(r)
    \/ MsNewPageReject(r)
    \/ MsGotoResolve(r)
    \/ \E why \in NavErrors : MsGotoReject(r, why)
    \/ MsSettleDone(r)
    \/ MsSelect(r)
    \/ MsCloseEmptyDone(r)
    \/ MsCatchCloseDone(r)

\* ------------------------------------ single-source /api/extract-stream
\* what page.evaluate returns: the src of every video, source and iframe
\* element and of every script match, in document order
DomSourceLists ==
    { <<>>,
      << <<"//", "cdn.example", "/a", ".mp4">> >>,
      << <<"/", "embed/", "603">> >>,
      << <<"https://ads.example", "/pre", ".m3u8">>,
         <<"https://cdn.example", "/hls/", "master", ".m3u8">> >>,
      << <<"/", "embed/", "603">>,
         <<"https://cdn.example", "/hls/", "master", ".m3u8">> >>,
      << <<"blob:", "x">> >> }

\* what the broad regex over the rendered HTML matches, NoUrl for no match
HtmlMatches == { NoUrl, <<"https://cdn.example", "/embed/", "603">> }

IsAdSource(src) ==
    Includes(src, "ads") \/ Includes(src, "doubleclick") \/ Includes(src, "analytics")

\* mutant of BestSource: the loop also breaks on a source of none of the forms
RECURSIVE BestSourceAnyForm(_, _)
BestSourceAnyForm(list, target) ==
    IF list = <<>> THEN NoUrl
    ELSE LET src == Head(list)
         IN  IF src = <<>> \/ IsAdSource(src) THEN BestSourceAnyForm(Tail(list), target)
             ELSE IF StartsWith(src, "//") THEN <<"https:">> \o src
             ELSE IF StartsWith(src, "/")
                  THEN IF Origin(target) = NoUrl THEN Throw ELSE Origin(target) \o src
             ELSE src

\* "Try to find the best source": the first source the loop breaks on, made
\* absolute; NoUrl when the loop ends without a break
RECURSIVE BestSource(_, _)
BestSource(list, target) ==
    IF list = <<>> THEN NoUrl
    ELSE LET src == Head(list)
         IN  IF src = <<>> \/ IsAdSource(src) THEN BestSource(Tail(list), target)
             ELSE IF StartsWith(src, "//") THEN <<"https:">> \o src
             ELSE IF StartsWith(src, "/")
                  THEN IF Origin(target) = NoUrl THEN Throw ELSE Origin(target) \o src
             ELSE IF StartsWith(src, "http") THEN src
             ELSE BestSource(Tail(list), target)

SingleBody(s, u, cap) ==
    [success |-> TRUE, streamUrl |-> s, type |-> StreamType(s),
     contentType |-> ContentType(u),
     capturedFromNetwork |-> (Len(cap.m3u8) > 0 \/ Len(cap.mp4) > 0)]

\* from "if (!streamUrl)" after the scans to the await of the finally block
EsAnswer(r, s) ==
    /\ IF s = NoUrl
       THEN Respond(r, 404, [error |-> "Could not extract stream URL",
                             capturedUrls |-> capturedUrls[r]])
       ELSE IF s = Throw \/ AbsoluteUrl(s, targetUrl[r]) = Throw
            THEN Respond(r, 500, [error |-> "Failed to extract stream URL"])
            ELSE Respond(r, 200, SingleBody(AbsoluteUrl(s, targetUrl[r]), targetUrl[r],
                                            capturedUrls[r]))
    /\ streamUrl' = [streamUrl EXCEPT ![r] = IF s = Throw THEN NoUrl ELSE s]
    /\ Goto(r, "finally")

\* mutant of EsCatch: the outer catch sends nothing
EsCatchSilent(r) ==
    /\ UNCHANGED resp
    /\ Goto(r, IF page[r] = 0 THEN "done" ELSE "finally")

\* the outer catch, then the finally block up to its await
EsCatch(r) ==
    /\ Respond(r, 500, [error |-> "Failed to extract stream URL"])
    /\ Goto(r, IF page[r] = 0 THEN "done" ELSE "finally")

EsStart(r) ==
    /\ Running(r, "extractSingle", "start")
    /\ IF targetUrl[r] = NoUrl
       THEN /\ Respond(r, 400, [error |-> "URL parameter is required"])
            /\ Goto(r, "done")
       ELSE /\ Goto(r, NewPageCall)
            /\ UNCHANGED resp
    /\ UNCHANGED <<globals, route, targetUrl, srcIdx, page, pages, ownBrowser,
                   capturedUrls, netLog, streamUrl, tried, proxyVars>>

EsNewPageResolve(r) ==
    /\ Running(r, "extractSingle", "newPage")
    /\ browser = "launched"
    /\ OpenPage(r, 0, "global")
    /\ Goto(r, "goto")
    /\ UNCHANGED <<globals, route, targetUrl, srcIdx, ownBrowser, streamUrl,
                   tried, resp, proxyVars>>

EsNewPageReject(r) ==
    /\ Running(r, "extractSingle", "newPage") \/ Running(r, "extractSingle", "newPageThrown")
    /\ EsCatch(r)
    /\ UNCHANGED <<globals, route, targetUrl, srcIdx, page, pages, ownBrowser,
                   capturedUrls, netLog, streamUrl, tried, proxyVars>>

\* an await on the page resolved: goto, the settle timer, waitForSelector
\* (resolved or timed out), page.content()
EsPageStep(r, from, to) ==
    /\ Running(r, "extractSingle", from)
    /\ from = "goto" => CurrentPage(r).open
    /\ Goto(r, to)
    /\ UNCHANGED <<globals, route, targetUrl, srcIdx, page, pages, ownBrowser,
                   capturedUrls, netLog, streamUrl, tried, resp, proxyVars>>

\* page.goto, page.content or page.evaluate rejected
EsPageReject(r) ==
    /\ proc # "exited"
    /\ route[r] = "extractSingle"
    /\ pc[r] \in {"goto", "content", "evaluate"}
    /\ EsCatch(r)
    /\ UNCHANGED <<globals, route, targetUrl, srcIdx, page, pages, ownBrowser,
                   capturedUrls, netLog, streamUrl, tried, proxyVars>>

\* page.content() resolved: select from the captured URLs, else call evaluate
EsContentDone(r) ==
    /\ Running(r, "extractSingle", "content")
    /\ CurrentPage(r).open
    /\ IF SelectCaptured(capturedUrls[r]) # NoUrl
       THEN /\ EsAnswer(r, SelectCaptured(capturedUrls[r]))
            /\ UNCHANGED pages
       ELSE /\ pages' = [pages EXCEPT ![r][page[r]].scanned = TRUE]
            /\ Goto(r, "evaluate")
            /\ UNCHANGED <<streamUrl, resp>>
    /\ UNCHANGED <<globals, route, targetUrl, srcIdx, page, ownBrowser,
                   capturedUrls, netLog, tried, proxyVars>>

\* page.evaluate() resolved with videoSources; html is what content() returned
EsEvaluateDone(r, videoSources, urlMatch) ==
    /\ Running(r, "extractSingle", "evaluate")
    /\ CurrentPage(r).open
    /\ LET best == BestSource(videoSources, targetUrl[r])
       IN  EsAnswer(r, IF best = NoUrl THEN urlMatch ELSE best)
    /\ pages' = [pages EXCEPT ![r][page[r]].videoSources = videoSources]
    /\ UNCHANGED <<globals, route, targetUrl, srcIdx, page, ownBrowser,
                   capturedUrls, netLog, tried, proxyVars>>

SingleNext(r) ==
    \/ EsStart(r)
    \/ EsNewPageResolve(r)
    \/ EsNewPageReject(r)
    \/ EsPageStep(r, "goto", "settle")
    \/ EsPageStep(r, "settle", "waitSel")
    \/ EsPageStep(r, "waitSel", "content")
    \/ EsPageReject(r)
    \/ EsContentDone(r)
    \/ \E vs \in DomSourceLists, m \in HtmlMatches : EsEvaluateDone(r, vs, m)

\* ------------------------------------------------------ the proxy routes
extractVars == <<srcIdx, page, pages, ownBrowser, capturedUrls, netLog, streamUrl, tried>>

\* response.headers of the upstream, <<>> for a header it did not send
NoHeaders ==
    [contentType |-> <<>>, contentLength |-> <<>>, acceptRanges |-> <<>>,
     contentRange |-> <<>>]

\* the headers of a whole body of TotalLength bytes
FullHeaders ==
    [contentType |-> <<"video/mp4">>, contentLength |-> <<"1000">>,
     acceptRanges |-> <<"bytes">>, contentRange |-> <<>>]

\* the headers of the part 100-199 of that body
PartialHeaders ==
    [contentType |-> <<"video/mp4">>, contentLength |-> <<"100">>,
     acceptRanges |-> <<"bytes">>,
     contentRange |-> <<"bytes ", "100", "-", "199", "/", "1000">>]

\* what the upstream does with a fetch: an HTTP answer, or none at all
\* playlistResp.data as its lines (the pieces between '\n'); a line is a
\* sequence of tokens, white space being tokens of its own
Playlists ==
    { << <<"#EXTM3U">>,
         <<"#EXTINF:10,">>,
         <<"seg1.ts">>,
         <<>>,
         <<"/", "abs/", "seg2.ts">>,
         <<"https://other.example", "/x/", "seg3.ts", "?", "t", "=", "a", "&", "b", "=", "c">> >>,
      << <<"#EXTM3U", "\r">>,
         <<"seg1.ts", "\r">>,
         <<" ", "\r">> >>,
      << <<"#EXTM3U">>,
         <<"https://[bad">>,
         <<"seg1.ts">> >> }

\* response.data of a body that is not read as text
NoData == <<>>

\* what the upstream does with a fetch: an HTTP answer, or none at all
UpstreamAnswers ==
    { [kind |-> "response", status |-> 200, headers |-> h, data |-> NoData] :
          h \in {FullHeaders, NoHeaders} }
    \cup { [kind |-> "response", status |-> 200, headers |-> NoHeaders, data |-> pl] :
             pl \in Playlists }
    \cup { [kind |-> "response", status |-> 206, headers |-> PartialHeaders, data |-> NoData] }
    \cup { [kind |-> "response", status |-> st, headers |-> NoHeaders, data |-> NoData] :
             st \in {403, 503} }
    \cup { [kind |-> "unreachable", status |-> 0, headers |-> NoHeaders, data |-> NoData],
           [kind |-> "timeout", status |-> 0, headers |-> NoHeaders, data |-> NoData] }

\* an origin answers 206 only to a request that carries a Range, and the
\* body of a 200 is read as lines exactly by a responseType 'text' request
Plausible(cfg, up) ==
    /\ (up.kind = "response" /\ up.status = 206) => cfg.Range # ""
    /\ (up.kind = "response" /\ up.status = 200) =>
          (up.data # NoData <=> cfg.responseType = "text")

\* range.replace(/bytes=/, '').split('-'), parseInt of the two parts
RangeParts(rng) ==
    CASE rng = "bytes=100-199" -> [start |-> 100, end |-> 199]

\* range.replace('bytes=', '')
RangeSpec(rng) ==
    <<ToString(RangeParts(rng).start), "-", ToString(RangeParts(rng).end)>>

\* String.prototype.toLowerCase
Lower(u) ==
    [i \in 1..Len(u) |->
        CASE u[i] = ".M3U8" -> ".m3u8"
          [] u[i] = "INDEX" -> "index"
          [] OTHER -> u[i]]

\* url.toLowerCase().endsWith('.m3u8')
IsPlaylist(u) == EndsWith(Lower(u), ".m3u8")

\* axios resolves: there is an answer and validateStatus accepts its status
\* (s => s >= 200 && s < 400, or null: every status, or the default: 2xx)
AxiosResolves(cfg, up) ==
    /\ up.kind = "response"
    /\ \/ cfg.validate = "any"
       \/ cfg.validate = "2xx3xx" /\ up.status >= 200 /\ up.status < 400
       \/ cfg.validate = "2xx" /\ up.status >= 200 /\ up.status < 300

\* error.message of the rejection
AxiosMessage(up) ==
    CASE up.kind = "response" -> "Request failed with status code"
      [] up.kind = "unreachable" -> "connect ECONNREFUSED"
      [] up.kind = "timeout" -> "timeout exceeded"

\* error.response?.status || 500
CatchStatus(up) == IF up.kind = "response" THEN up.status ELSE 500

DefaultReferer == <<"https://vidlink.pro", "/">>

\* axios(cfg) is called and awaited
StartFetch(r, cfg) ==
    /\ fetchReq' = [fetchReq EXCEPT ![r] = cfg]
    /\ fetches' = [fetches EXCEPT ![r] = @ + 1]

WhiteSpace == {" ", "\t", "\r"}

\* String.prototype.trim
Trim(line) ==
    LET keep == { i \in 1..Len(line) : line[i] \notin WhiteSpace }
    IN  IF keep = {} THEN <<>>
        ELSE SubSeq(line, CHOOSE i \in keep : \A j \in keep : i <= j,
                          CHOOSE i \in keep : \A j \in keep : j <= i)

\* tokens that end with '/'
Slashed == {"/", "/hls/", "/v/", "/x/", "/movie/", "/tv/", "/watch/", "/img/", "abs/"}

\* first tokens that no URL parser accepts
Unparsable == {"https://[bad"}

\* the base without its query and without its last path segment
BaseDir(base) ==
    LET path == SplitHead(base, "?")
        dirs == { i \in 1..Len(path) : path[i] \in Slashed }
    IN  IF dirs = {} THEN <<path[1], "/">>
        ELSE SubSeq(path, 1, CHOOSE i \in dirs : \A j \in dirs : j <= i)

\* new URL(line, new URL(base)).toString(), Throw when either constructor throws
ResolveUrl(line, base) ==
    IF Origin(base) = NoUrl \/ line[1] \in Unparsable THEN Throw
    ELSE IF StartsWith(line, "http") THEN line
    ELSE IF StartsWith(line, "//") THEN <<"https:">> \o line
    ELSE IF StartsWith(line, "/") THEN Origin(base) \o line
    ELSE BaseDir(base) \o line

\* encodeURIComponent of one token: every character outside A-Z a-z 0-9 - _ . ! ~ * ' ( )
\* becomes %XX
EncodeToken(t) ==
    CASE t = "https://cdn.example" -> "https%3A%2F%2Fcdn.example"
      [] t = "https://other.example" -> "https%3A%2F%2Fother.example"
      [] t = "https://vidlink.pro" -> "https%3A%2F%2Fvidlink.pro"
      [] t = "https:" -> "https%3A"
      [] t = "//" -> "%2F%2F"
      [] t = "/" -> "%2F"
      [] t = "/hls/" -> "%2Fhls%2F"
      [] t = "/v/" -> "%2Fv%2F"
      [] t = "/x/" -> "%2Fx%2F"
      [] t = "abs/" -> "abs%2F"
      [] t = "?" -> "%3F"
      [] t = "=" -> "%3D"
      [] t = "&" -> "%26"
      [] OTHER -> t

encodeURIComponent(u) == [i \in 1..Len(u) |-> EncodeToken(u[i])]

\* decodeURIComponent of one token: every %XX becomes its character
DecodeToken(t) ==
    CASE t = "https%3A%2F%2Fcdn.example" -> "https://cdn.example"
      [] t = "https%3A%2F%2Fother.example" -> "https://other.example"
      [] t = "https%3A%2F%2Fvidlink.pro" -> "https://vidlink.pro"
      [] t = "https%3A" -> "https:"
      [] t = "%2F%2F" -> "//"
      [] t = "%2F" -> "/"
      [] t = "%2Fhls%2F" -> "/hls/"
      [] t = "%2Fv%2F" -> "/v/"
      [] t = "%2Fx%2F" -> "/x/"
      [] t = "abs%2F" -> "abs/"
      [] t = "%3F" -> "?"
      [] t = "%3D" -> "="
      [] t = "%26" -> "&"
      [] OTHER -> t

\* req.query[name] of a request for u: the query is what follows the first
\* '?', cut at every '&', each piece cut at its first '=', the value decoded;
\* NoUrl when the parameter is missing
QueryParam(u, name) ==
    LET q == IF IndexFrom(u, "?", 1) = 0 THEN <<>>
             ELSE SubSeq(u, IndexFrom(u, "?", 1) + 1, Len(u))
        starts == { i \in 1..(Len(q) - 1) :
                      /\ q[i] = name /\ q[i + 1] = "="
                      /\ (i = 1 \/ q[i - 1] = "&") }
    IN  IF starts = {} THEN NoUrl
        ELSE LET i == CHOOSE k \in starts : \A j \in starts : k <= j
                 stop == IF IndexFrom(q, "&", i + 2) = 0 THEN Len(q) + 1
                         ELSE IndexFrom(q, "&", i + 2)
             IN  [k \in 1..(stop - i - 2) |-> DecodeToken(q[i + 1 + k])]

\* mutant of ProxyLine: the URLs are put in the query as they are
ProxyLineUnencoded(segUrl, ref) ==
    <<"/api/video-proxy", "?", "url", "=">> \o segUrl \o <<"&", "referer", "=">> \o ref

\* the proxy URL that replaces a playlist line
ProxyLine(segUrl, ref) ==
    <<"/api/video-proxy", "?", "url", "=">> \o encodeURIComponent(segUrl)
    \o <<"&", "referer", "=">> \o encodeURIComponent(ref)

\* mutant of RewriteLine: the referer of a line is always the playlist's own URL
RewriteLineOwnUrl(line, url, ref) ==
    LET t == Trim(line)
    IN  IF t = <<>> \/ StartsWith(t, "#") THEN t
        ELSE IF ResolveUrl(t, url) = Throw THEN t
        ELSE ProxyLine(ResolveUrl(t, url), url)

\* the function mapped over the lines of the playlist
RewriteLine(line, url, ref) ==
    LET t == Trim(line)
    IN  IF t = <<>> \/ StartsWith(t, "#") THEN t
        ELSE IF ResolveUrl(t, url) = Throw THEN t
        ELSE ProxyLine(ResolveUrl(t, url), IF ref # NoUrl THEN ref ELSE url)

\* playlist.split('\n').map(...).join('\n'), as lines
RewritePlaylist(data, url, ref) ==
    [i \in 1..Len(data) |-> RewriteLine(data[i], url, ref)]

\* /api/video-proxy with playlist rewrite: from entry to the axios await
VpStart(r) ==
    /\ Running(r, "videoProxy", "start")
    /\ IF targetUrl[r] = NoUrl
       THEN /\ Respond(r, 400, [text |-> "Missing url parameter"])
            /\ Goto(r, "done")
            /\ UNCHANGED <<fetchReq, fetches>>
       ELSE /\ StartFetch(r, [url |-> targetUrl[r],
                              responseType |-> IF IsPlaylist(targetUrl[r])
                                               THEN "text" ELSE "stream",
                              Referer |-> IF referer[r] # NoUrl THEN referer[r]
                                          ELSE DefaultReferer,
                              Range |-> range[r],
                              validate |-> "2xx3xx"])
            /\ Goto(r, "fetch")
            /\ UNCHANGED resp
    /\ UNCHANGED <<globals, route, targetUrl, extractVars, range, referer, upstream>>

Answer(status, body) == [status |-> status, body |-> body]

\* what the handler answers once the axios call has settled with up
VpAnswer(cfg, up, ref) ==
    IF AxiosResolves(cfg, up)
    THEN IF cfg.responseType = "text"
         THEN Answer(200, [kind |-> "playlist",
                           lines |-> RewritePlaylist(up.data, cfg.url, ref)])
         ELSE Answer(up.status, [kind |-> "stream", headers |-> up.headers])
    ELSE Answer(500, [text |-> "Error proxying video: ", message |-> AxiosMessage(up)])

\* the axios call settled: the playlist branch, the binary branch, or the catch
VpSettle(r, up) ==
    /\ Running(r, "videoProxy", "fetch")
    /\ Plausible(fetchReq[r], up)
    /\ upstream' = [upstream EXCEPT ![r] = up]
    /\ Respond(r, VpAnswer(fetchReq[r], up, referer[r]).status,
                VpAnswer(fetchReq[r], up, referer[r]).body)
    /\ Goto(r, "done")
    /\ UNCHANGED <<globals, route, targetUrl, extractVars, range, referer, fetchReq,
                   fetches>>

\* the direct /api/stream: from entry to the axios await
SdStart(r) ==
    /\ Running(r, "streamDirect", "start")
    /\ IF targetUrl[r] = NoUrl
       THEN /\ Respond(r, 400, [error |-> "URL parameter is required"])
            /\ Goto(r, "done")
            /\ UNCHANGED <<fetchReq, fetches>>
       ELSE /\ StartFetch(r, [url |-> targetUrl[r], responseType |-> "stream",
                              Referer |-> NoUrl, Range |-> "", validate |-> "any"])
            /\ Goto(r, "fetch")
            /\ UNCHANGED resp
    /\ UNCHANGED <<globals, route, targetUrl, extractVars, range, referer, upstream>>

\* responseHeaders: Content-Type with a default, Accept-Ranges always,
\* Content-Length if the upstream sent one; with a Range from the client,
\* Content-Range and Content-Length are computed from it, the total being
\* response.data.length, which a stream does not have
SdHeaders(up, rng) ==
    [contentType |-> IF up.headers.contentType # <<>> THEN up.headers.contentType
                     ELSE <<"application/octet-stream">>,
     acceptRanges |-> <<"bytes">>,
     contentLength |-> IF rng # ""
                       THEN <<ToString(RangeParts(rng).end - RangeParts(rng).start + 1)>>
                       ELSE up.headers.contentLength,
     contentRange |-> IF rng # ""
                      THEN <<"bytes ">> \o RangeSpec(rng) \o <<"/", "undefined">>
                      ELSE <<>>]

\* writeHead(206) when the client sent a Range, writeHead(200) otherwise
SdAnswer(cfg, up, rng) ==
    IF AxiosResolves(cfg, up)
    THEN Answer(IF rng # "" THEN 206 ELSE 200,
                [kind |-> "stream", headers |-> SdHeaders(up, rng)])
    ELSE Answer(CatchStatus(up), [error |-> "Failed to fetch the video stream",
                                  details |-> AxiosMessage(up)])

SdSettle(r, up) ==
    /\ Running(r, "streamDirect", "fetch")
    /\ Plausible(fetchReq[r], up)
    /\ upstream' = [upstream EXCEPT ![r] = up]
    /\ Respond(r, SdAnswer(fetchReq[r], up, range[r]).status,
                SdAnswer(fetchReq[r], up, range[r]).body)
    /\ Goto(r, "done")
    /\ UNCHANGED <<globals, route, targetUrl, extractVars, range, referer, fetchReq,
                   fetches>>

\* the simple /api/video-proxy: from entry to the axios await
SpStart(r) ==
    /\ Running(r, "videoProxySimple", "start")
    /\ IF targetUrl[r] = NoUrl
       THEN /\ Respond(r, 400, [error |-> "URL parameter is required"])
            /\ Goto(r, "done")
            /\ UNCHANGED <<fetchReq, fetches>>
       ELSE /\ StartFetch(r, [url |-> targetUrl[r], responseType |-> "stream",
                              Referer |-> DefaultReferer, Range |-> "", validate |-> "any"])
            /\ Goto(r, "fetch")
            /\ UNCHANGED resp
    /\ UNCHANGED <<globals, route, targetUrl, extractVars, range, referer, upstream>>

\* "Forward important headers": the three that are copied; Content-Range is
\* set only when the client sent a Range and the upstream said 200
SpHeaders(up, rng) ==
    [contentType |-> up.headers.contentType,
     contentLength |-> up.headers.contentLength,
     acceptRanges |-> up.headers.acceptRanges,
     contentRange |-> IF rng # "" /\ up.status = 200
                      THEN IF up.headers.contentRange # <<>> THEN up.headers.contentRange
                           ELSE <<"bytes ">> \o RangeSpec(rng) \o <<"/", "*">>
                      ELSE <<>>]

\* 206 when the client sent a Range and the upstream said 200, else the
\* upstream's status
SpAnswer(cfg, up, rng) ==
    IF AxiosResolves(cfg, up)
    THEN Answer(IF rng # "" /\ up.status = 200 THEN 206 ELSE up.status,
                [kind |-> "stream", headers |-> SpHeaders(up, rng)])
    ELSE Answer(CatchStatus(up), [error |-> "Failed to proxy video",
                                  details |-> AxiosMessage(up)])

SpSettle(r, up) ==
    /\ Running(r, "videoProxySimple", "fetch")
    /\ Plausible(fetchReq[r], up)
    /\ upstream' = [upstream EXCEPT ![r] = up]
    /\ Respond(r, SpAnswer(fetchReq[r], up, range[r]).status,
                SpAnswer(fetchReq[r], up, range[r]).body)
    /\ Goto(r, "done")
    /\ UNCHANGED <<globals, route, targetUrl, extractVars, range, referer, fetchReq,
                   fetches>>

\* -------------------------------- /api/stream of server.js (own browser)
\* what the race for the video URL resolves with
VideoUrls == { <<"https://cdn.example", "/hls/", "master", ".m3u8">> }

\* the catch block, then the finally block: reading "response" there throws a
\* ReferenceError (the const lives in the try block), so the handler's promise
\* rejects after the response was sent. Unhandled, the rejection ends the
\* process; handed to an error middleware, it does not.
SlCatch(r, crash) ==
    IF crash
    THEN Exit
    ELSE /\ Respond(r, 500, [error |-> "Failed to fetch the video stream"])
         /\ Goto(r, "done")
         /\ UNCHANGED <<proc, route, targetUrl, extractVars, proxyVars>>

\* from entry to the await of puppeteer.launch
SlStart(r) ==
    /\ Running(r, "streamLaunch", "start")
    /\ Goto(r, "launch")
    /\ UNCHANGED <<globals, route, targetUrl, extractVars, proxyVars, resp>>

\* browser = await puppeteer.launch(...) into the handler's own variable
SlLaunchResolve(r) ==
    /\ Running(r, "streamLaunch", "launch")
    /\ ownBrowser' = [ownBrowser EXCEPT ![r] = "live"]
    /\ launches' = launches + 1
    /\ Goto(r, "newPage")
    /\ UNCHANGED <<variant, chain, proc, browser, served, orphans, route, targetUrl, srcIdx,
                   page, pages, capturedUrls, netLog, streamUrl, tried, proxyVars, resp>>

SlNewPageResolve(r) ==
    /\ Running(r, "streamLaunch", "newPage")
    /\ ownBrowser[r] = "live"
    /\ OpenPage(r, 0, "own")
    /\ Goto(r, "goto")
    /\ UNCHANGED <<globals, route, targetUrl, srcIdx, ownBrowser, streamUrl, tried,
                   proxyVars, resp>>

\* page.goto(url) resolves only for a url it was given
SlGotoResolve(r) ==
    /\ Running(r, "streamLaunch", "goto")
    /\ targetUrl[r] # NoUrl
    /\ CurrentPage(r).open
    /\ Goto(r, "race")
    /\ UNCHANGED <<globals, route, targetUrl, extractVars, proxyVars, resp>>

\* Promise.race resolved with a video URL; page.cookies() is awaited
SlRaceResolve(r, videoUrl) ==
    /\ Running(r, "streamLaunch", "race")
    /\ CurrentPage(r).open
    /\ streamUrl' = [streamUrl EXCEPT ![r] = videoUrl]
    /\ Goto(r, "cookies")
    /\ UNCHANGED <<globals, route, targetUrl, srcIdx, page, pages, ownBrowser,
                   capturedUrls, netLog, tried, proxyVars, resp>>

\* page.cookies() resolved; browser.close() is awaited
SlCookiesResolve(r) ==
    /\ Running(r, "streamLaunch", "cookies")
    /\ CurrentPage(r).open
    /\ Goto(r, "closeBrowser")
    /\ UNCHANGED <<globals, route, targetUrl, extractVars, proxyVars, resp>>

\* browser.close() resolved; the first axios call is awaited
SlBrowserClosed(r) ==
    /\ Running(r, "streamLaunch", "closeBrowser")
    /\ ownBrowser' = [ownBrowser EXCEPT ![r] = "closed"]
    /\ pages' = ClosePagesOf("own")
    /\ StartFetch(r, [url |-> streamUrl[r], responseType |-> "stream",
                      Referer |-> DefaultReferer, Range |-> "", validate |-> "any"])
    /\ Goto(r, "fetch")
    /\ UNCHANGED <<globals, route, targetUrl, srcIdx, page, capturedUrls, netLog,
                   streamUrl, tried, range, referer, upstream, resp>>

\* the first axios call resolved: the url check, then the second axios call
SlFetchResolve(r, up) ==
    /\ Running(r, "streamLaunch", "fetch")
    /\ AxiosResolves(fetchReq[r], up)
    /\ Plausible(fetchReq[r], up)
    /\ upstream' = [upstream EXCEPT ![r] = up]
    /\ IF targetUrl[r] = NoUrl
       THEN /\ Respond(r, 400, [error |-> "URL parameter is required"])
            /\ Goto(r, "done")
            /\ UNCHANGED <<fetchReq, fetches>>
       ELSE /\ StartFetch(r, [url |-> targetUrl[r], responseType |-> "stream",
                              Referer |-> DefaultReferer, Range |-> "", validate |-> "any"])
            /\ Goto(r, "fetch2")
            /\ UNCHANGED resp
    /\ UNCHANGED <<globals, route, targetUrl, extractVars, range, referer>>

\* an awaited call rejected or threw (launch, newPage, goto, the race, an
\* undefined video URL, cookies, an axios call), or the second axios call
\* resolved and assigning its result to the const "response" threw
SlFail(r, crash) ==
    /\ proc # "exited"
    /\ route[r] = "streamLaunch"
    /\ pc[r] \in {"launch", "newPage", "goto", "race", "cookies", "fetch", "fetch2"}
    /\ SlCatch(r, crash)
    /\ UNCHANGED <<variant, chain, browser, launches, served, orphans>>

\* ------------------------------------------- the server.js of README.md
\* page.on('request') of /api/extract
GateReadme(req) ==
    IF req.resourceType \in {"image", "stylesheet", "font"} \/ Includes(req.url, "ads")
    THEN "abort"
    ELSE "continue"

\* page.on('response'): the URL test (the content-type test is left to the
\* URLs: a playlist answers with a .m3u8 URL, a video with a .mp4 one)
LooksLikeStream(u) == Includes(u, ".m3u8") \/ EndsWith(u, ".mp4")

\* what page.evaluate returns: the [src] URLs that pass the filter
Candidates == { <<>>, << <<"https://cdn.example", "/v/", "movie", ".mp4">> >> }

\* a request of the page: the request hook decides; a request that goes on is
\* answered, and the response hook keeps the first URL that looks like a stream
ReOnRequest(r, req) ==
    /\ Running(r, "extractReadme", "goto") \/ Running(r, "extractReadme", "settle")
    /\ CurrentPage(r).open
    /\ Len(netLog[r]) < MaxNet
    /\ netLog' = [netLog EXCEPT ![r] =
                     Append(@, [url |-> req.url, resourceType |-> req.resourceType,
                                decision |-> GateReadme(req)])]
    /\ streamUrl' = [streamUrl EXCEPT ![r] =
                        IF @ = NoUrl /\ GateReadme(req) = "continue" /\ LooksLikeStream(req.url)
                        THEN req.url ELSE @]
    /\ UNCHANGED <<globals, pc, route, targetUrl, srcIdx, page, pages, ownBrowser,
                   capturedUrls, tried, resp, proxyVars>>

\* /api/extract from entry to the await of launchBrowser()
ReStart(r) ==
    /\ Running(r, "extractReadme", "start")
    /\ IF targetUrl[r] = NoUrl
       THEN /\ Respond(r, 400, [error |-> "Missing url query param"])
            /\ Goto(r, "done")
       ELSE /\ Goto(r, "launch")
            /\ UNCHANGED resp
    /\ UNCHANGED <<globals, route, targetUrl, extractVars, proxyVars>>

\* browser = await launchBrowser()
ReLaunchResolve(r) ==
    /\ Running(r, "extractReadme", "launch")
    /\ ownBrowser' = [ownBrowser EXCEPT ![r] = "live"]
    /\ launches' = launches + 1
    /\ Goto(r, "newPage")
    /\ UNCHANGED <<variant, chain, proc, browser, served, orphans, route, targetUrl, srcIdx,
                   page, pages, capturedUrls, netLog, streamUrl, tried, proxyVars, resp>>

\* page = await browser.newPage(); the hooks are installed and goto is called
ReNewPageResolve(r) ==
    /\ Running(r, "extractReadme", "newPage")
    /\ OpenPage(r, 0, "own")
    /\ Goto(r, "goto")
    /\ UNCHANGED <<globals, route, targetUrl, srcIdx, ownBrowser, streamUrl, tried,
                   proxyVars, resp>>

\* page.goto resolved; waitForTimeout(2500) is awaited
ReGotoResolve(r) ==
    /\ Running(r, "extractReadme", "goto")
    /\ Goto(r, "settle")
    /\ UNCHANGED <<globals, route, targetUrl, extractVars, proxyVars, resp>>

\* the timer fired: if (!found) page.evaluate is called, else browser.close()
ReSettleDone(r) ==
    /\ Running(r, "extractReadme", "settle")
    /\ IF streamUrl[r] = NoUrl
       THEN /\ pages' = [pages EXCEPT ![r][page[r]].scanned = TRUE]
            /\ Goto(r, "evaluate")
       ELSE /\ Goto(r, "closeBrowser")
            /\ UNCHANGED pages
    /\ UNCHANGED <<globals, route, targetUrl, srcIdx, page, ownBrowser, capturedUrls,
                   netLog, streamUrl, tried, proxyVars, resp>>

\* page.evaluate resolved with the candidates; browser.close() is awaited
ReEvaluateDone(r, candidates) ==
    /\ Running(r, "extractReadme", "evaluate")
    /\ streamUrl' = [streamUrl EXCEPT ![r] =
                        IF Len(candidates) > 0 THEN candidates[1] ELSE @]
    /\ Goto(r, "closeBrowser")
    /\ UNCHANGED <<globals, route, targetUrl, srcIdx, page, pages, ownBrowser,
                   capturedUrls, netLog, tried, proxyVars, resp>>

\* browser.close() resolved: 404 without a stream, the stream otherwise
ReBrowserClosed(r) ==
    /\ Running(r, "extractReadme", "closeBrowser")
    /\ ownBrowser' = [ownBrowser EXCEPT ![r] = "closed"]
    /\ pages' = ClosePagesOf("own")
    /\ IF streamUrl[r] = NoUrl
       THEN Respond(r, 404, [error |-> "No stream URL found"])
       ELSE Respond(r, 200, [stream |-> streamUrl[r]])
    /\ Goto(r, "done")
    /\ UNCHANGED <<globals, route, targetUrl, srcIdx, page, capturedUrls, netLog,
                   streamUrl, tried, proxyVars>>

\* an awaited call rejected: catch, if (browser) await browser.close()
ReFail(r) ==
    /\ proc # "exited"
    /\ route[r] = "extractReadme"
    /\ pc[r] \in {"launch", "newPage", "goto", "evaluate"}
    /\ IF ownBrowser[r] = "live"
       THEN /\ Goto(r, "catchClose")
            /\ UNCHANGED resp
       ELSE /\ Respond(r, 500, [error |-> "Extraction failed"])
            /\ Goto(r, "done")
    /\ UNCHANGED <<globals, route, targetUrl, extractVars, proxyVars>>

\* browser.close() of the catch block resolved
ReCatchClosed(r) ==
    /\ Running(r, "extractReadme", "catchClose")
    /\ ownBrowser' = [ownBrowser EXCEPT ![r] = "closed"]
    /\ pages' = ClosePagesOf("own")
    /\ Respond(r, 500, [error |-> "Extraction failed"])
    /\ Goto(r, "done")
    /\ UNCHANGED <<globals, route, targetUrl, srcIdx, page, capturedUrls, netLog,
                   streamUrl, tried, proxyVars>>

\* target.toLowerCase().includes('.m3u8')
IsPlaylistReadme(u) == Includes(Lower(u), ".m3u8")

\* /api/video-proxy of README.md: from entry to the axios await
RpStart(r) ==
    /\ Running(r, "videoProxyReadme", "start")
    /\ IF targetUrl[r] = NoUrl
       THEN /\ Respond(r, 400, [text |-> "Missing url"])
            /\ Goto(r, "done")
            /\ UNCHANGED <<fetchReq, fetches>>
       ELSE /\ StartFetch(r, [url |-> targetUrl[r],
                              responseType |-> IF IsPlaylistReadme(targetUrl[r])
                                               THEN "text" ELSE "stream",
                              Referer |-> referer[r],
                              Range |-> range[r],
                              validate |-> "2xx"])
            /\ Goto(r, "fetch")
            /\ UNCHANGED resp
    /\ UNCHANGED <<globals, route, targetUrl, extractVars, range, referer, upstream>>

\* the function mapped over the lines: no try around new URL
RewriteLineReadme(line, target, ref) ==
    LET t == Trim(line)
    IN  IF t = <<>> \/ StartsWith(t, "#") THEN t
        ELSE IF ResolveUrl(t, target) = Throw THEN Throw
        ELSE ProxyLine(ResolveUrl(t, target), IF ref # NoUrl THEN ref ELSE target)

\* what the handler answers once the axios call has settled with up: the
\* playlist, the piped body with the default status, or 502 from the catch
RpAnswer(cfg, up, ref) ==
    IF AxiosResolves(cfg, up)
    THEN IF cfg.responseType = "text"
         THEN IF \E i \in 1..Len(up.data) : RewriteLineReadme(up.data[i], cfg.url, ref) = Throw
              THEN Answer(502, [text |-> "Proxy error"])
              ELSE Answer(200, [kind |-> "playlist",
                                lines |-> [i \in 1..Len(up.data) |->
                                              RewriteLineReadme(up.data[i], cfg.url, ref)]])
         ELSE Answer(200, [kind |-> "stream", headers |-> NoHeaders])
    ELSE Answer(502, [text |-> "Proxy error"])

RpSettle(r, up) ==
    /\ Running(r, "videoProxyReadme", "fetch")
    /\ Plausible(fetchReq[r], up)
    /\ upstream' = [upstream EXCEPT ![r] = up]
    /\ Respond(r, RpAnswer(fetchReq[r], up, referer[r]).status,
                RpAnswer(fetchReq[r], up, referer[r]).body)
    /\ Goto(r, "done")
    /\ UNCHANGED <<globals, route, targetUrl, extractVars, range, referer, fetchReq,
                   fetches>>

ReadmeNext(r) ==
    \/ \E req \in NetRequests : ReOnRequest(r, req)
    \/ ReStart(r)
    \/ ReLaunchResolve(r)
    \/ ReNewPageResolve(r)
    \/ ReGotoResolve(r)
    \/ ReSettleDone(r)
    \/ \E c \in Candidates : ReEvaluateDone(r, c)
    \/ ReBrowserClosed(r)
    \/ ReFail(r)
    \/ ReCatchClosed(r)
    \/ RpStart(r)
    \/ \E up \in UpstreamAnswers : RpSettle(r, up)

ProxyNext(r) ==
    \/ VpStart(r)
    \/ SdStart(r)
    \/ SpStart(r)
    \/ \E up \in UpstreamAnswers : VpSettle(r, up) \/ SdSettle(r, up) \/ SpSettle(r, up)

LaunchNext(r) ==
    \/ SlStart(r)
    \/ SlLaunchResolve(r)
    \/ SlNewPageResolve(r)
    \/ SlGotoResolve(r)
    \/ \E v \in VideoUrls : SlRaceResolve(r, v)
    \/ SlCookiesResolve(r)
    \/ SlBrowserClosed(r)
    \/ \E up \in UpstreamAnswers : SlFetchResolve(r, up)
    \/ \E crash \in BOOLEAN : SlFail(r, crash)

Next ==
    \/ LaunchResolve
    \/ SigintHandler
    \/ ProcessExit
    \/ \E r \in Reqs :
         \/ Arrive(r)
         \/ Finish(r)
         \/ \E req \in NetRequests : OnRequest(r, req)
         \/ MultiNext(r)
         \/ SingleNext(r)
         \/ ExtractFinally(r)
         \/ ProxyNext(r)
         \/ LaunchNext(r)
         \/ ReadmeNext(r)

Spec == Init /\ [][Next]_vars

\* ------------------------------------------------- concurrent extractions
\* Node runs one callback at a time and switches handlers at every await:
\* extraction requests overlap, each in its own activation.
\* The awaits resolve (the rejections are in Spec); what varies is the order in
\* which the handlers and the hooks of the pages run.
ConcVariants == {"multi", "server"}

ConcUrl == <<"https://vidlink.pro", "/movie/", "603">>

\* the media request the page of slot r issues: a different URL on each page
ConcRequests ==
    << [url |-> <<"https://cdn.example", "/hls/", "master", ".m3u8">>, resourceType |-> "xhr"],
       [url |-> <<"https://cdn.example", "/v/", "movie", ".mp4">>, resourceType |-> "media"],
       [url |-> <<"https://cdn.example", "/hls/", "MTA4MA==", ".m3u8">>, resourceType |-> "xhr"],
       [url |-> <<"https://other.example", "/v/", "movie", ".mp4">>, resourceType |-> "media"] >>

ConcRequest(r) == ConcRequests[((r - 1) % Len(ConcRequests)) + 1]

InitConc ==
    /\ Init
    /\ variant \in ConcVariants

\* an extraction request arrives while others are under way; the launch has
\* resolved (the arrivals that come before it are in Spec)
ArriveConc(r) ==
    /\ proc # "exited"
    /\ browser = "launched"
    /\ served < MaxRequests
    /\ pc[r] = "idle"
    /\ \A q \in 1..(r - 1) : pc[q] # "idle"
    /\ \E rt \in Routes(variant) :
         /\ IsExtract(rt)
         /\ route' = [route EXCEPT ![r] = rt]
    /\ targetUrl' = [targetUrl EXCEPT ![r] = ConcUrl]
    /\ pc' = [pc EXCEPT ![r] = "start"]
    /\ served' = served + 1
    /\ UNCHANGED <<variant, chain, proc, browser, launches, orphans, srcIdx, page,
                   pages, ownBrowser, capturedUrls, netLog, streamUrl, tried,
                   proxyVars, resp>>

NextConc ==
    \/ LaunchResolve
    \/ \E r \in Reqs :
         \/ ArriveConc(r)
         \/ Finish(r)
         \/ OnRequest(r, ConcRequest(r))
         \/ MsStart(r)
         \/ MsNewPageResolve(r)
         \/ MsGotoResolve(r)
         \/ MsSettleDone(r)
         \/ MsSelect(r)
         \/ MsCloseEmptyDone(r)
         \/ EsStart(r)
         \/ EsNewPageResolve(r)
         \/ EsPageStep(r, "goto", "settle")
         \/ EsPageStep(r, "settle", "waitSel")
         \/ EsPageStep(r, "waitSel", "content")
         \/ EsContentDone(r)
         \/ EsEvaluateDone(r, <<>>, NoUrl)
         \/ ExtractFinally(r)

SpecConc == InitConc /\ [][NextConc]_vars

\* ------------------------------------------------------------ properties
Multi(r) == route[r] = "extractMulti"

Sent(r, status) == \E k \in 1..Len(resp[r]) : resp[r][k].status = status

Returned(r) == pc[r] = "done"

\* the iterations of request r that yielded a candidate
Found(r) == { k \in 1..Len(tried[r]) : tried[r][k].outcome = "found" }

\* outcomes that let the loop go on to the next provider
FailedOrSkipped ==
    {"skipped", "newPageError", "timeout", "navFailed", "empty", "closeError"}

\* C1: first success wins. In the multi-source resolver an iteration that
\* yielded a candidate is the last iteration run, no page belongs to a provider
\* after it, at most one response is sent, and a 200 carries the candidate of
\* that (first and only) yielding provider.
C1_FirstSuccessWins ==
    \A r \in Reqs : Multi(r) =>
        /\ Len(resp[r]) <= 1
        /\ \A k \in Found(r) :
             /\ k = Len(tried[r])
             /\ \A p \in 1..Len(pages[r]) : pages[r][p].src <= tried[r][k].src
        /\ Sent(r, 200) =>
             /\ Cardinality(Found(r)) = 1
             /\ \A k \in Found(r) :
                  resp[r][1].body.streamUrl = AbsoluteUrl(tried[r][k].candidate, targetUrl[r])

\* C1 witness: the first provider yielded the stream, the request was answered
\* 200 and returned, and only one page was ever opened.
C1_Witness ==
    \E r \in Reqs :
        /\ Multi(r) /\ Returned(r) /\ Sent(r, 200)
        /\ Len(tried[r]) = 1 /\ tried[r][1].outcome = "found"
        /\ Len(pages[r]) = 1

\* C2: providers are tried in ascending priority order. The k-th iteration is
\* the provider of priority k, every iteration before the last one failed or
\* was skipped, the pages were opened in that order, and when the first
\* provider timed out and the second yielded a stream the answer is 200 with
\* the second provider's stream.
C2_PriorityOrder ==
    \A r \in Reqs : Multi(r) =>
        /\ \A k \in 1..Len(tried[r]) :
             /\ SOURCES[tried[r][k].src].priority = k
             /\ k < Len(tried[r]) => tried[r][k].outcome \in FailedOrSkipped
        /\ \A p, q \in 1..Len(pages[r]) : p < q => pages[r][p].src < pages[r][q].src
        /\ ( /\ Len(tried[r]) = 2
             /\ tried[r][1].outcome = "timeout"
             /\ tried[r][2].outcome = "found" )
           => /\ Len(pages[r]) = 2
              /\ resp[r] = << Answer(200, MultiBody(AbsoluteUrl(tried[r][2].candidate,
                                                               targetUrl[r]),
                                                   targetUrl[r])) >>

\* C2 witness: the first provider timed out, the second yielded the stream,
\* and the request returned.
C2_Witness ==
    \E r \in Reqs :
        /\ Multi(r) /\ Returned(r)
        /\ Len(tried[r]) = 2
        /\ tried[r][1].outcome = "timeout"
        /\ tried[r][2].outcome = "found"
        /\ Sent(r, 200)

\* C3: on a successful extraction the response names, as its source, the
\* provider whose page yielded the returned stream.
C3_SourceIsYieldingProvider ==
    \A r \in Reqs : (Multi(r) /\ Sent(r, 200)) =>
        \E k \in Found(r) : resp[r][1].body.source = SOURCES[tried[r][k].src].name

\* C4: a 404 lists a provider's name exactly when a page was opened for that
\* provider during the request.
C4_TriedListIsAttempted ==
    \A r \in Reqs : (Multi(r) /\ Sent(r, 404)) =>
        \A s \in 1..NumSources :
            (\E i \in 1..Len(resp[r][1].body.triedSources) :
                 resp[r][1].body.triedSources[i] = SOURCES[s].name)
            <=> (\E p \in 1..Len(pages[r]) : pages[r][p].src = s)

\* the extraction routes of all the servers
IsExtraction(rt) == IsExtract(rt) \/ rt = "extractReadme"

\* a URL with '/tv/' that lacks the id/season/episode shape
TvWithoutEpisode(u) ==
    /\ \E i \in 1..Len(u) : u[i] = "/tv/"
    /\ ~\E i \in 1..Len(u) :
          /\ i + 5 <= Len(u) /\ u[i] = "/tv/"
          /\ u[i + 1] \in Digits /\ u[i + 2] = "/" /\ u[i + 3] \in Digits
          /\ u[i + 4] = "/" /\ u[i + 5] \in Digits

\* C5: an extraction request for a TV URL without the episode segment is
\* answered 400, and no page is opened and no provider tried for it.
C5_TvWithoutEpisodeIs400 ==
    \A r \in Reqs : (IsExtraction(route[r]) /\ Returned(r) /\ TvWithoutEpisode(targetUrl[r])) =>
        /\ Len(resp[r]) = 1 /\ resp[r][1].status = 400
        /\ pages[r] = <<>>

\* the URL is recognised as neither a movie nor a TV URL. The single-source
\* handler treats every URL without '/tv/' as a movie: it recognises all.
Unrecognised(r) ==
    /\ Multi(r)
    /\ ~\E i \in 1..Len(targetUrl[r]) : targetUrl[r][i] \in {"/movie/", "/tv/"}

C7_ReleasedOnReturn ==
    \A r \in Reqs : Returned(r) =>
        /\ \A p \in 1..Len(pages[r]) : ~pages[r][p].open
        /\ ownBrowser[r] # "live"

LiveBrowsers ==
    (IF browser = "launched" THEN 1 ELSE 0) + orphans
    + Cardinality({ r \in Reqs : ownBrowser[r] = "live" })

\* C8: at most one browser instance exists at any time, and a browser is
\* launched only once in the process lifetime.
C8_OneBrowser == LiveBrowsers <= 1 /\ launches <= 1

IsProxy(rt) ==
    rt \in {"videoProxy", "streamDirect", "videoProxySimple", "streamLaunch",
            "videoProxyReadme"}

\* C9: a proxy request without url starts no browser, no page and no upstream
\* fetch, and is answered 400.
C9_ProxyWithoutUrlIs400 ==
    \A r \in Reqs : (IsProxy(route[r]) /\ targetUrl[r] = NoUrl) =>
        /\ ownBrowser[r] = "none" /\ pages[r] = <<>> /\ fetches[r] = 0
        /\ Returned(r) => (Len(resp[r]) = 1 /\ resp[r][1].status = 400)

Rejected(up) == up.kind = "response" /\ ~(up.status >= 200 /\ up.status < 400)

Unreachable(up) == up.kind \in {"unreachable", "timeout"}

\* what route rt answers to the upstream outcome up
ProxyAnswer(rt, cfg, up, rng, ref) ==
    CASE rt = "videoProxy" -> VpAnswer(cfg, up, ref)
      [] rt = "streamDirect" -> SdAnswer(cfg, up, rng)
      [] rt = "videoProxySimple" -> SpAnswer(cfg, up, rng)
      [] rt = "videoProxyReadme" -> RpAnswer(cfg, up, ref)

\* C10: an upstream status outside 2xx/3xx, and an upstream that cannot be
\* reached, are both answered with a 5xx gateway error, and the answer to the
\* one differs from the answer to the other.
C10_UpstreamFailureIsGatewayError ==
    \A r \in Reqs :
        ( /\ route[r] \in {"videoProxy", "streamDirect", "videoProxySimple",
                          "videoProxyReadme"}
          /\ Returned(r)
          /\ Rejected(upstream[r]) \/ Unreachable(upstream[r]) ) =>
            /\ Len(resp[r]) = 1
            /\ resp[r][1].status >= 500 /\ resp[r][1].status <= 599
            /\ \A other \in UpstreamAnswers :
                 (Rejected(other) # Rejected(upstream[r])
                    /\ (Rejected(other) \/ Unreachable(other)))
                 => ProxyAnswer(route[r], fetchReq[r], other, range[r], referer[r]) # resp[r][1]

\* the proxy routes that pipe the upstream body through
IsPipe(rt) == rt \in {"videoProxy", "streamDirect", "videoProxySimple", "videoProxyReadme"}

\* request r was piped an upstream answer of status 200 or 206
Piped(r) ==
    /\ IsPipe(route[r]) /\ Returned(r)
    /\ fetchReq[r].responseType = "stream"
    /\ upstream[r].kind = "response" /\ upstream[r].status \in {200, 206}

\* C11: for a non-playlist target the response status is the upstream's status
\* (200 or 206) unchanged, and content-type, content-length, accept-ranges and
\* content-range are in the response exactly as the upstream sent them; a 206
\* is sent only when the upstream answered 206.
C11_StatusAndHeadersUnchanged ==
    \A r \in Reqs : Piped(r) =>
        /\ Len(resp[r]) = 1
        /\ resp[r][1].status = upstream[r].status
        /\ resp[r][1].body.headers = upstream[r].headers

\* C12: a proxy request with Range: bytes=100-199 for a direct video target
\* has the Range forwarded to the upstream, and when the upstream serves the
\* part it is answered 206 with the upstream's Content-Range (whose total is
\* the upstream's length); without a Range it is answered 200 with the
\* upstream's headers for the whole body.
C12_RangeForwardedAndHonoured ==
    \A r \in Reqs : (IsPipe(route[r]) /\ fetchReq[r].responseType = "stream") =>
        /\ fetchReq[r].Range = range[r]
        /\ Piped(r) =>
             /\ Len(resp[r]) = 1
             /\ (range[r] # "" /\ upstream[r].status = 206) =>
                   /\ resp[r][1].status = 206
                   /\ resp[r][1].body.headers.contentRange = upstream[r].headers.contentRange
             /\ range[r] = "" =>
                   /\ resp[r][1].status = 200
                   /\ resp[r][1].body.headers.contentLength = upstream[r].headers.contentLength
                   /\ resp[r][1].body.headers.contentRange = <<>>

\* the proxy routes with a playlist branch
IsRewriter(rt) == rt \in {"videoProxy", "videoProxyReadme"}

\* request r was answered with a rewritten playlist
PlaylistSent(r) ==
    /\ IsRewriter(route[r]) /\ Returned(r)
    /\ Len(resp[r]) = 1 /\ resp[r][1].status = 200
    /\ resp[r][1].body.kind = "playlist"

\* line is empty or starts with '#'
EmptyOrTag(line) == line = <<>> \/ StartsWith(line, "#")

\* C13: the rewritten playlist has as many lines as the input, in the same
\* order; every empty line and every line that starts with '#' is emitted
\* identical to the input line, and a line that differs from its input line
\* is a non-empty line that does not start with '#'.
C13_TagLinesVerbatim ==
    \A r \in Reqs : PlaylistSent(r) =>
        /\ Len(resp[r][1].body.lines) = Len(upstream[r].data)
        /\ \A i \in 1..Len(upstream[r].data) :
             /\ EmptyOrTag(upstream[r].data[i]) =>
                  resp[r][1].body.lines[i] = upstream[r].data[i]
             /\ resp[r][1].body.lines[i] # upstream[r].data[i] =>
                  ~EmptyOrTag(upstream[r].data[i])

\* line i of the playlist sent to r was replaced by a proxy URL
Replaced(r, i) ==
    /\ resp[r][1].body.lines[i] # <<>>
    /\ resp[r][1].body.lines[i][1] = "/api/video-proxy"

\* C14: the url query parameter of the proxy URL that replaces a playlist line
\* parses back to the absolute URL of that line resolved against the URL the
\* manifest was fetched from: seg1.ts in https://cdn.example/hls/index.m3u8
\* is https://cdn.example/hls/seg1.ts, a root-relative line is put on the
\* manifest's origin, an absolute line is itself, whatever the referer is.
C14_ProxyUrlDecodesToResolved ==
    \A r \in Reqs : PlaylistSent(r) =>
        \A i \in 1..Len(upstream[r].data) : Replaced(r, i) =>
            LET line == Trim(upstream[r].data[i])
                back == QueryParam(resp[r][1].body.lines[i], "url")
            IN  /\ back = ResolveUrl(line, fetchReq[r].url)
                /\ line = <<"seg1.ts">> => back = <<"https://cdn.example", "/hls/", "seg1.ts">>
                /\ line = <<"/", "abs/", "seg2.ts">> =>
                      back = <<"https://cdn.example", "/", "abs/", "seg2.ts">>
                /\ StartsWith(line, "http") => back = line

\* C14 witness: a playlist with a relative line, a root-relative line and an
\* absolute line with a query was rewritten for a request that named a referer.
C14_Witness ==
    \E r \in Reqs :
        /\ PlaylistSent(r) /\ referer[r] # NoUrl
        /\ \E i, j, k \in 1..Len(upstream[r].data) :
             /\ Replaced(r, i) /\ upstream[r].data[i] = <<"seg1.ts">>
             /\ Replaced(r, j) /\ StartsWith(upstream[r].data[j], "/")
             /\ Replaced(r, k) /\ Includes(upstream[r].data[k], "&")

\* a line that new URL rejects
Malformed(line) == line # <<>> /\ line[1] \in Unparsable

\* the upstream served r a playlist with a line that does not parse
MalformedServed(r) ==
    /\ IsRewriter(route[r]) /\ Returned(r)
    /\ fetchReq[r].responseType = "text"
    /\ upstream[r].kind = "response" /\ upstream[r].status = 200
    /\ \E i \in 1..Len(upstream[r].data) : Malformed(upstream[r].data[i])

\* C15: when one playlist line fails to parse, the playlist is still sent with
\* status 200, that line is emitted unchanged and every other URI line is
\* replaced by a proxy URL.
C15_MalformedLinePassedThrough ==
    \A r \in Reqs : MalformedServed(r) =>
        /\ PlaylistSent(r)
        /\ \A i \in 1..Len(upstream[r].data) :
             IF Malformed(upstream[r].data[i])
             THEN resp[r][1].body.lines[i] = upstream[r].data[i]
             ELSE ~EmptyOrTag(Trim(upstream[r].data[i])) => Replaced(r, i)

\* the path of u (what precedes '?') ends in .m3u8, whatever the case
PathEndsM3u8(u) == EndsWith(Lower(SplitHead(u, "?")), ".m3u8")

\* C16: the proxy takes the playlist branch (a text fetch, then the rewrite)
\* exactly when the path of the target URL ends in .m3u8, case-insensitively,
\* with or without a query string after the path.
C16_PlaylistBranchByPath ==
    \A r \in Reqs : (IsRewriter(route[r]) /\ fetches[r] > 0) =>
        (fetchReq[r].responseType = "text" <=> PathEndsM3u8(targetUrl[r]))

IsHls(u) == Includes(u, ".m3u8")

IsDirect(u) == Includes(u, ".mp4") \/ Includes(u, ".webm") \/ Includes(u, ".mkv")

\* the URLs of the requests the page has issued, in arrival order
Observed(r) == [i \in 1..Len(netLog[r]) |-> netLog[r][i].url]

\* C17: within one page context the captured URLs only grow, by the URL of
\* the request that arrives: onto the hls list when it contains .m3u8,
\* otherwise onto the direct list when it contains .mp4, .webm or .mkv, and
\* not at all otherwise. At every moment the hls list is the observed .m3u8
\* URLs and the direct list the observed other video URLs, in arrival order
\* with repetitions, so that nothing is removed, reordered, reclassified,
\* deduplicated or in both lists.
C17_CaptureAppendOnly ==
    /\ [](\A r \in Reqs : IsExtract(route[r]) =>
            /\ capturedUrls[r].m3u8 = SelectSeq(Observed(r), LAMBDA u : IsHls(u))
            /\ capturedUrls[r].mp4 = SelectSeq(Observed(r), LAMBDA u : ~IsHls(u) /\ IsDirect(u)))
    /\ [][\A r \in Reqs :
            (IsExtract(route[r]) /\ route'[r] = route[r] /\ page[r] # 0 /\ page'[r] = page[r]) =>
                \/ capturedUrls'[r] = capturedUrls[r]
                \/ \E req \in NetRequests :
                     /\ netLog'[r] = Append(netLog[r], [url |-> req.url,
                                                        resourceType |-> req.resourceType,
                                                        decision |-> Gate(req)])
                     /\ \/ /\ IsHls(req.url)
                           /\ capturedUrls'[r] = [capturedUrls[r] EXCEPT !.m3u8 = Append(@, req.url)]
                        \/ /\ ~IsHls(req.url) /\ IsDirect(req.url)
                           /\ capturedUrls'[r] = [capturedUrls[r] EXCEPT !.mp4 = Append(@, req.url)]
          ]_vars

\* C17 witness: one page requested the same playlist twice and a video, and
\* the playlist is twice in the hls list.
C17_Witness ==
    \E r \in Reqs :
        /\ IsExtract(route[r]) /\ page[r] # 0
        /\ Len(capturedUrls[r].m3u8) = 2
        /\ capturedUrls[r].m3u8[1] = capturedUrls[r].m3u8[2]

\* the decision the interception hook owes a request
Owed(e) ==
    IF \/ e.resourceType \in {"image", "stylesheet", "font"}
       \/ Includes(e.url, "ads") \/ Includes(e.url, "analytics") \/ Includes(e.url, "tracking")
    THEN "abort"
    ELSE "continue"

\* C18: every request the interception hook of a page has handled received
\* one decision: abort when its resource type is image, stylesheet or font or
\* its URL contains 'ads', 'analytics' or 'tracking', continue otherwise.
C18_GateDecision ==
    \A r \in Reqs : \A i \in 1..Len(netLog[r]) :
        /\ netLog[r][i].decision \in {"abort", "continue"}
        /\ netLog[r][i].decision = Owed(netLog[r][i])

\* the URL the handler of r selected from the captured URLs of its current
\* page, NoUrl when it has not selected from them
Selected(r) ==
    IF Multi(r)
    THEN IF Found(r) # {} THEN tried[r][CHOOSE k \in Found(r) : TRUE].candidate ELSE NoUrl
    ELSE IF /\ route[r] = "extractSingle" /\ pc[r] \in {"finally", "done"}
            /\ page[r] # 0 /\ ~CurrentPage(r).scanned
            /\ capturedUrls[r] # EmptyCapture
         THEN streamUrl[r]
         ELSE NoUrl

\* C19: the selected URL is an hls URL whenever the hls list is not empty;
\* among the hls URLs it is one with a marker (MTA4MA== or NzIw) whenever one
\* has a marker, whatever the capture order, and the first-seen hls URL when
\* none has; it is the first-seen direct URL when the hls list is empty.
C19_SelectionPrefersMarkedHls ==
    \A r \in Reqs : Selected(r) # NoUrl =>
        LET hls == capturedUrls[r].m3u8
            direct == capturedUrls[r].mp4
            marked == { i \in 1..Len(hls) : Includes(hls[i], "MTA4MA==") \/ Includes(hls[i], "NzIw") }
        IN  IF hls # <<>>
            THEN /\ \E i \in 1..Len(hls) : Selected(r) = hls[i]
                 /\ marked # {} => \E i \in marked : Selected(r) = hls[i]
                 /\ marked = {} => Selected(r) = hls[1]
            ELSE /\ direct # <<>>
                 /\ Selected(r) = direct[1]

\* C19 witness: an unmarked playlist was captured first and a marked one
\* second, and the marked one was selected.
C19_Witness ==
    \E r \in Reqs :
        /\ Selected(r) # NoUrl
        /\ Len(capturedUrls[r].m3u8) = 2
        /\ ~Includes(capturedUrls[r].m3u8[1], "MTA4MA==")
        /\ Includes(capturedUrls[r].m3u8[2], "MTA4MA==")
        /\ Selected(r) = capturedUrls[r].m3u8[2]

\* C20: the DOM/script fallback scanner runs on a page exactly when nothing
\* was captured on it: a scanned page has both lists empty, and a provider
\* whose page captured nothing ("empty") had its page scanned before the
\* resolver went on.
C20_ScannerIffNothingCaptured ==
    \A r \in Reqs :
        /\ (page[r] # 0 /\ CurrentPage(r).scanned) =>
              (IsExtract(route[r]) => capturedUrls[r] = EmptyCapture)
        /\ (route[r] = "extractSingle" /\ pc[r] \in {"evaluate", "finally"}
              /\ capturedUrls[r] = EmptyCapture /\ resp[r] # <<>>
              /\ resp[r][1].status \in {200, 404}) => CurrentPage(r).scanned
        /\ Multi(r) =>
              \A k \in 1..Len(tried[r]) : tried[r][k].outcome = "empty" =>
                  \E p \in 1..Len(pages[r]) :
                      pages[r][p].src = tried[r][k].src /\ pages[r][p].scanned

\* ------------------------------------------------ the fallback scanner
\* the form of a candidate: already absolute, protocol-relative, root-relative
Form(src) ==
    IF StartsWith(src, "//") THEN "//"
    ELSE IF StartsWith(src, "/") THEN "/"
    ELSE IF StartsWith(src, "http") THEN "http"
    ELSE "none"

\* the positions of the candidates that pass the ad filter and have form f
Survivors(list, f) ==
    { i \in 1..Len(list) : list[i] # <<>> /\ ~IsAdSource(list[i]) /\ Form(list[i]) = f }

First(S) == CHOOSE i \in S : \A j \in S : i <= j

\* the candidate the priority order absolute, protocol-relative, root-relative
\* designates, NoUrl when no candidate survives
PriorityPick(list) ==
    IF Survivors(list, "http") # {} THEN list[First(Survivors(list, "http"))]
    ELSE IF Survivors(list, "//") # {} THEN list[First(Survivors(list, "//"))]
    ELSE IF Survivors(list, "/") # {} THEN list[First(Survivors(list, "/"))]
    ELSE NoUrl

\* the scanner of request r ran to its end and found a candidate
ScannerPicked(r) ==
    /\ route[r] = "extractSingle"
    /\ pc[r] \in {"finally", "done"}
    /\ page[r] # 0
    /\ PriorityPick(CurrentPage(r).videoSources) # NoUrl

\* C21: the fallback scanner selects, among the candidates that survive the
\* ad filter, the first absolute (http) one, the first protocol-relative (//)
\* one only when none is absolute, the first root-relative (/) one only when
\* none is absolute or protocol-relative; the selected URL is that candidate
\* made absolute.
C21_ScannerPriorityOrder ==
    \A r \in Reqs : ScannerPicked(r) =>
        streamUrl[r] = AbsoluteUrl(PriorityPick(CurrentPage(r).videoSources), targetUrl[r])

\* the positions of the candidates the best-source loop can break on
Eligible(list) == Survivors(list, "//") \cup Survivors(list, "/") \cup Survivors(list, "http")

\* the scanner of request r ran to its end on a list with an eligible candidate
Scanned(r) ==
    /\ route[r] = "extractSingle"
    /\ pc[r] \in {"finally", "done"}
    /\ page[r] # 0
    /\ Eligible(CurrentPage(r).videoSources) # {}

\* C22: every streamUrl of a 200 response of an extraction starts with http;
\* when the scanner's candidate is protocol-relative the response carries
\* https: followed by it, when it is root-relative the origin of the page URL
\* followed by it.
C22_ReturnedUrlIsAbsolute ==
    \A r \in Reqs :
        /\ IsExtract(route[r]) =>
              \A k \in 1..Len(resp[r]) :
                  resp[r][k].status = 200 => StartsWith(resp[r][k].body.streamUrl, "http")
        /\ Scanned(r) =>
              LET list == CurrentPage(r).videoSources
                  c == list[First(Eligible(list))]
              IN  /\ Sent(r, 200)
                  /\ Form(c) = "//" => resp[r][1].body.streamUrl = <<"https:">> \o c
                  /\ Form(c) = "/" => resp[r][1].body.streamUrl = Origin(targetUrl[r]) \o c

\* C22 witness: nothing was captured, the DOM held //cdn.example/a.mp4, and
\* the response carries https://cdn.example/a.mp4.
C22_Witness ==
    \E r \in Reqs :
        /\ Scanned(r)
        /\ capturedUrls[r] = EmptyCapture
        /\ CurrentPage(r).videoSources = << <<"//", "cdn.example", "/a", ".mp4">> >>
        /\ Sent(r, 200)
        /\ resp[r][1].body.streamUrl = <<"https:", "//", "cdn.example", "/a", ".mp4">>

\* ------------------------------------------------- concurrent extractions
\* the URLs held in the capturedUrls of request r
CapturedSet(r) ==
    { capturedUrls[r].m3u8[i] : i \in 1..Len(capturedUrls[r].m3u8) } \cup
    { capturedUrls[r].mp4[i] : i \in 1..Len(capturedUrls[r].mp4) }

\* the URLs the hook of the current page of request r handled
ObservedSet(r) == { netLog[r][i].url : i \in 1..Len(netLog[r]) }

\* request r is between the creation of a page and its return
HasPage(r) == IsExtract(route[r]) /\ page[r] # 0 /\ pc[r] # "done"

\* C23: whatever the interleaving of concurrent extraction requests, the
\* capturedUrls of a request holds only URLs its own page observed, never the
\* URL another request's page issued, the URL a request selects was observed
\* on its own page, and every request that is past newPage has a page of its
\* own.
C23_PerRequestIsolation ==
    \A r \in Reqs :
        /\ CapturedSet(r) \subseteq ObservedSet(r)
        /\ \A q \in Reqs \ {r} : ConcRequest(q).url \notin CapturedSet(r)
        /\ Selected(r) # NoUrl => Selected(r) \in ObservedSet(r)
        /\ (IsExtract(route[r]) /\ pc[r] \in {"goto", "settle", "waitSel", "content"}) =>
              /\ page[r] # 0
              /\ CurrentPage(r).open

\* C23 witness: two requests are under way at once, each with a page, and
\* each has captured the URL of its own page; one of them has selected it.
C23_Witness ==
    \E r, q \in Reqs :
        /\ r # q
        /\ HasPage(r) /\ HasPage(q)
        /\ CapturedSet(r) = {ConcRequest(r).url}
        /\ CapturedSet(q) = {ConcRequest(q).url}
        /\ pc[q] \in {"goto", "settle", "waitSel"}
        /\ Selected(r) = ConcRequest(r).url

\* ------------------------------------------------- per-provider failures
AttemptErrors == {"newPageError", "timeout", "navFailed"}

\* the iterations of request r that ended in an error of the attempt
FailedAttempts(r) == { k \in 1..Len(tried[r]) : tried[r][k].outcome \in AttemptErrors }

\* C24: an error raised during the attempt on one provider (page creation,
\* navigation timeout, navigation failure) never becomes the outcome of the
\* request: no 500 is sent by a request one of whose attempts failed, and once
\* the request has answered, the page of every failed attempt is released.
C24_ProviderFailureNotSurfaced ==
    \A r \in Reqs : (Multi(r) /\ FailedAttempts(r) # {}) =>
        /\ ~Sent(r, 500)
        /\ Returned(r) => \A p \in 1..Len(pages[r]) : ~pages[r][p].open

\* ------------------------------------------------------ playback chains
\* A player asks for a manifest through /api/video-proxy and then asks for
\* the lines of the rewritten playlist it got, one request at a time.
ChainVariants == {"multi", "readme"}

ChainRoots ==
    { <<"https://cdn.example", "/hls/", "index", ".m3u8">>,
      <<"https://cdn.example", "/hls/", "INDEX", ".M3U8">> }

\* a master playlist naming two media playlists, and a media playlist
ChainPlaylists ==
    { << <<"#EXTM3U">>,
         <<"low", ".m3u8">>,
         <<"https://other.example", "/x/", "high", ".m3u8">> >>,
      << <<"#EXTINF:10,">>,
         <<"seg1.ts">>,
         <<"/", "abs/", "seg2.ts">> >> }

ChainAnswers ==
    { [kind |-> "response", status |-> 200, headers |-> NoHeaders, data |-> pl] :
          pl \in ChainPlaylists }
    \cup { [kind |-> "response", status |-> 200, headers |-> FullHeaders, data |-> NoData],
           [kind |-> "response", status |-> 403, headers |-> NoHeaders, data |-> NoData] }

InitChain ==
    /\ Init
    /\ variant \in ChainVariants

\* the player's first request: the manifest, with or without a referer override
ArriveChain(r) ==
    /\ served = 0
    /\ r = 1
    /\ pc[r] = "idle"
    /\ \E rt \in Routes(variant) :
         /\ rt \in {"videoProxy", "videoProxyReadme"}
         /\ route' = [route EXCEPT ![r] = rt]
    /\ \E u \in ChainRoots : targetUrl' = [targetUrl EXCEPT ![r] = u]
    /\ \E f \in Referers : referer' = [referer EXCEPT ![r] = f]
    /\ pc' = [pc EXCEPT ![r] = "start"]
    /\ served' = 1
    /\ UNCHANGED <<variant, proc, browser, launches, orphans, chain, range,
                   fetchReq, upstream, fetches, extractVars, resp>>

\* the player requests line i of the rewritten playlist it received: Express
\* parses url and referer out of the query of that line
Follow(r, i) ==
    /\ served < MaxRequests
    /\ pc[r] = "done"
    /\ Len(resp[r]) = 1 /\ resp[r][1].status = 200
    /\ resp[r][1].body.kind = "playlist"
    /\ i \in 1..Len(resp[r][1].body.lines)
    /\ resp[r][1].body.lines[i] # <<>>
    /\ resp[r][1].body.lines[i][1] = "/api/video-proxy"
    /\ chain' = Append(chain, [url |-> targetUrl[r], referer |-> referer[r],
                               Referer |-> fetchReq[r].Referer])
    /\ targetUrl' = [targetUrl EXCEPT ![r] = QueryParam(resp[r][1].body.lines[i], "url")]
    /\ referer' = [referer EXCEPT ![r] = QueryParam(resp[r][1].body.lines[i], "referer")]
    /\ fetchReq' = [fetchReq EXCEPT ![r] = Fresh.fetchReq]
    /\ upstream' = [upstream EXCEPT ![r] = Fresh.upstream]
    /\ fetches' = [fetches EXCEPT ![r] = Fresh.fetches]
    /\ resp' = [resp EXCEPT ![r] = Fresh.resp]
    /\ pc' = [pc EXCEPT ![r] = "start"]
    /\ served' = served + 1
    /\ UNCHANGED <<variant, proc, browser, launches, orphans, route, range, extractVars>>

NextChain ==
    \E r \in Reqs :
        \/ ArriveChain(r)
        \/ \E i \in 1..3 : Follow(r, i)
        \/ VpStart(r)
        \/ RpStart(r)
        \/ \E up \in ChainAnswers : VpSettle(r, up) \/ RpSettle(r, up)

SpecChain == InitChain /\ [][NextChain]_vars

\* the referer value of the chain request r belongs to: the override of the
\* first request when it had one, the URL of the first manifest otherwise
ChainReferer(r) ==
    LET first == IF chain = <<>> THEN [url |-> targetUrl[r], referer |-> referer[r]]
                 ELSE [url |-> chain[1].url, referer |-> chain[1].referer]
    IN  IF first.referer # NoUrl THEN first.referer ELSE first.url

\* C25: along a playback chain the referer is fixed: every rewritten line of
\* every playlist of the chain carries the referer override of the first
\* request, or the URL of the first manifest when there was none, and every
\* request made by following a line carries that value as its referer
\* parameter and forwards it upstream as the Referer header.
C25_RefererFixedAlongChain ==
    \A r \in Reqs : IsRewriter(route[r]) =>
        /\ PlaylistSent(r) =>
              \A i \in 1..Len(resp[r][1].body.lines) : Replaced(r, i) =>
                  QueryParam(resp[r][1].body.lines[i], "referer") = ChainReferer(r)
        /\ chain # <<>> =>
              /\ referer[r] = ChainReferer(r)
              /\ pc[r] \in {"fetch", "done"} => fetchReq[r].Referer = ChainReferer(r)
              /\ \A k \in 2..Len(chain) :
                    /\ chain[k].referer = ChainReferer(r)
                    /\ chain[k].Referer = ChainReferer(r)

\* C25 witness: the player followed a line of a master playlist requested
\* without an override, and the nested playlist it got was rewritten.
C25_Witness ==
    \E r \in Reqs :
        /\ chain # <<>> /\ chain[1].referer = NoUrl
        /\ PlaylistSent(r)
        /\ fetchReq[r].Referer = chain[1].url
        /\ \E i \in 1..Len(resp[r][1].body.lines) : Replaced(r, i)

\* C26: on every path through the multi-source resolver, close is invoked at
\* most once on each page the request opened.
C26_PageClosedAtMostOnce ==
    \A r \in Reqs : Multi(r) =>
        \A p \in 1..Len(pages[r]) : pages[r][p].closeCalls <= 1

\* C27: no extraction request calls browser.newPage() while the global browser
\* is still undefined, whatever the order of listen, launch completion and
\* request arrival; every page of the global browser was created after the
\* launch resolved.
C27_NoUseBeforeLaunch ==
    \A r \in Reqs : IsExtract(route[r]) =>
        /\ pc[r] # "newPageThrown"
        /\ \A p \in 1..Len(pages[r]) : pages[r][p].owner = "global" => browser # "undefined"

\* the URLs of the requests the gate of the current page of request r aborted
AbortedSet(r) == { netLog[r][i].url : i \in { k \in 1..Len(netLog[r]) : netLog[r][k].decision = "abort" } }

\* C28: the stream URL a successful extraction returns is never the URL of a
\* request the gate aborted (type image, stylesheet or font, or a URL that
\* contains ads, analytics or tracking).
C28_AbortedNeverReturned ==
    \A r \in Reqs : (IsExtract(route[r]) /\ Sent(r, 200)) =>
        /\ resp[r][1].body.streamUrl \notin AbortedSet(r)
        /\ Selected(r) \notin AbortedSet(r)

\* the kind of the template that built URL built: tvUrl puts /tv/ in the
\* path, movieUrl /movie/
TemplateKind(built) == IF Includes(built, "/tv/") THEN "tv" ELSE "movie"

\* C29: the contentType of a successful multi-source extraction is the kind
\* of the template (tvUrl or movieUrl) that built the URL of the page which
\* yielded the stream, for every accepted input URL.
C29_ContentTypeMatchesTemplate ==
    \A r \in Reqs : (Multi(r) /\ Sent(r, 200) /\ Found(r) # {}) =>
        LET k == CHOOSE j \in Found(r) : TRUE
            built == SourceUrl(tried[r][k].src, targetUrl[r])
        IN  resp[r][1].body.contentType = TemplateKind(built)

\* ------------------------------------------ extraction runs to its answer
\* One extraction request at a time, every await of which settles: page
\* creation, navigation, the waits and page.close() return or throw.
LiveVariants == {"multi", "server"}

LiveUrls ==
    { NoUrl,
      <<"https://vidlink.pro", "/movie/", "603">>,
      <<"https://vidlink.pro", "/tv/", "1399", "/", "1">>,
      <<"https://example.com", "/watch/", "603">> }

LiveRequests ==
    { [url |-> <<"https://cdn.example", "/hls/", "master", ".m3u8">>, resourceType |-> "xhr"],
      [url |-> <<"https://cdn.example", "/img/", "poster.png">>, resourceType |-> "image"] }

InitLive ==
    /\ Init
    /\ variant \in LiveVariants

ArriveLive(r) ==
    /\ proc # "exited"
    /\ served < MaxRequests
    /\ \A q \in Reqs : pc[q] = "idle"
    /\ \A q \in 1..(r - 1) : pc[q] # "idle"
    /\ \E rt \in Routes(variant) :
         /\ IsExtract(rt)
         /\ route' = [route EXCEPT ![r] = rt]
    /\ \E u \in LiveUrls : targetUrl' = [targetUrl EXCEPT ![r] = u]
    /\ pc' = [pc EXCEPT ![r] = "start"]
    /\ served' = served + 1
    /\ UNCHANGED <<variant, proc, browser, launches, orphans, chain, srcIdx, page,
                   pages, ownBrowser, capturedUrls, netLog, streamUrl, tried,
                   proxyVars, resp>>

NextLive ==
    \/ LaunchResolve
    \/ \E r \in Reqs :
         \/ ArriveLive(r)
         \/ Finish(r)
         \/ \E req \in LiveRequests : OnRequest(r, req)
         \/ MultiNext(r)
         \/ SingleNext(r)
         \/ ExtractFinally(r)

\* every awaited call of a handler settles: the handler takes its next step
Settles ==
    \A r \in Reqs :
        /\ WF_vars(MultiNext(r))
        /\ WF_vars(SingleNext(r))
        /\ WF_vars(ExtractFinally(r))

SpecLive == InitLive /\ [][NextLive]_vars /\ Settles

ExtractStatuses == {200, 400, 404, 500}

\* C30: every extraction request is answered exactly once, with 200, 400, 404
\* or 500: at no point has a request sent two responses or another status, a
\* handler that has returned has sent one, and a request that has entered its
\* handler eventually has its handler returned with one response sent.
C30_ExactlyOneResponse ==
    /\ [](\A r \in Reqs : IsExtract(route[r]) =>
            /\ Len(resp[r]) <= 1
            /\ \A k \in 1..Len(resp[r]) : resp[r][k].status \in ExtractStatuses
            /\ Returned(r) => Len(resp[r]) = 1)
    /\ \A r \in Reqs :
          (IsExtract(route[r]) /\ pc[r] = "start") ~> (Returned(r) /\ Len(resp[r]) = 1)

\* C30 witness: a multi-source request whose first provider timed out and
\* whose second provider yielded nothing has returned with its one response.
C30_Witness ==
    \E r \in Reqs :
        /\ Multi(r) /\ Returned(r)
        /\ Len(tried[r]) = 2
        /\ tried[r][1].outcome = "timeout"
        /\ tried[r][2].outcome = "empty"
        /\ Len(resp[r]) = 1 /\ resp[r][1].status = 404
====
